---- MODULE Spec2Model ----
(***************************************************************************)
(* Verification model of the FSI-AgentGov-Solutions provisioning scripts.  *)
(*                                                                         *)
(*   SpecCmd  scripts/hooks/boundary-check.py: check_command               *)
(*   SpecReq  deploy_mcg.py: DataverseClient._request (429 retry loop)     *)
(*                                                                         *)
(* Text is modelled as sequences of one-character strings so that the      *)
(* regular expressions of the hook are computed character by character.    *)
(***************************************************************************)
EXTENDS Integers, Sequences, FiniteSets, TLC

VARIABLES
  \* ---- boundary-check.py -------------------------------------------------
  command,        \* the Bash command handed to check_command
  is_windows,     \* IS_WINDOWS (platform.system() == "Windows")
  decision,       \* "pending" | "allow" | "block"
  reason,         \* the reason string returned with the decision
  hook,           \* which boundary-check.py is configured as the hook
  stdin,          \* what the hook reads from stdin
  printed,        \* the JSON objects main() has printed, in order
  \* ---- DataverseClient._request -----------------------------------------
  rq_pc,          \* "idle" | "send" | "sleep" | "returned" | "raised"
  rq_attempts,    \* HTTP attempts made by the current call
  rq_responses,   \* the responses received, in order: [status, retry_after]
  rq_slept,       \* the arguments of time.sleep, in order
  \* ---- deploy_mcg.py: deploy() against one Dataverse environment ---------
  m_pc,           \* [i, ph, j]: the call of Program being run, its phase, its loop index
  m_run,          \* runs of deploy() started
  m_faults,       \* failing remote calls so far
  m_existing,     \* existing_role_ids of associate_roles_to_app
  m_remote,       \* the environment: resources by natural key, role privileges,
                  \* variable values, app components and roles, key and publish state
  m_log,          \* what the current run has done (history of the run)
  \* ---- ELM deploy.py and register_service_principal.py -------------------
  e_pc,           \* [i, ph, j]: the call of ElmProgram being run, its phase, its loop index
  e_run,          \* runs started
  e_faults,       \* failing remote calls so far
  e_dry,          \* dry_run of the current run
  e_mode,         \* "full" | "tables_only" | "roles_only" | "register" | "register_rotate" | "field_security"
  e_privmap,      \* privilege_map of create_roles, by entity
  e_remote,       \* the environment: resources by natural key, role privileges,
                  \* privilege records, client secrets, Key Vault versions
  e_log,          \* what the current run has done (history of the run)
  \* ---- verify_role_privileges.py, validate_immutability.py, export_quarterly_evidence.py
  a_script,       \* the script being run, "none" before the first run
  a_pc,           \* [i, ph, j]: the role, query or table being handled
  a_run,          \* runs started
  a_env,          \* the environment: role privileges, audit counts, records by table
  a_acc,          \* requests issued, results, files written, manifest of the run
  a_exit,         \* the exit code, -1 while running
  \* ---- elm_client.py: one method of ELMClient, and main() ------------------
  c_pc,           \* "idle" | "headers" | "send" | "returned" | "raised"
  c_calls,        \* calls made
  c_main,         \* the call is the one of main() for --test-connection
  c_method,       \* the method called: <<name, verb, whether a 404 gives None>>
  c_responses,    \* the statuses received by the call, in order (0: no answer)
  c_result,       \* "value" | "None" | the exception raised
  c_exit,         \* the exit code of main(), -1 while there is none
  \* ---- two runs of deploy_mcg.py at the same time -------------------------
  p_pc,           \* by run: [i, ph, j], the call of RACE_PROGRAM and its phase
  p_remote,       \* the environment: resources by natural key
  p_issued        \* the requests of the runs: <<"req" or "miss", run, phase, key>>

cmdVars == <<command, is_windows, decision, reason, hook, stdin, printed>>
reqVars == <<rq_pc, rq_attempts, rq_responses, rq_slept>>
mcgVars == <<m_pc, m_run, m_faults, m_existing, m_remote, m_log>>
elmVars == <<e_pc, e_run, e_faults, e_dry, e_mode, e_privmap, e_remote, e_log>>
auditVars == <<a_script, a_pc, a_run, a_env, a_acc, a_exit>>
clientVars == <<c_pc, c_calls, c_main, c_method, c_responses, c_result, c_exit>>
raceVars == <<p_pc, p_remote, p_issued>>
vars == <<cmdVars, reqVars, mcgVars, elmVars, auditVars, clientVars, raceVars>>

(***************************************************************************)
(* Text helpers                                                            *)
(***************************************************************************)
UpperChars == <<"A", "B", "C", "D", "E", "F", "G", "H", "I", "J", "K", "L", "M", "N", "O", "P", "Q", "R", "S", "T", "U", "V", "W", "X", "Y", "Z">>
LowerChars == <<"a", "b", "c", "d", "e", "f", "g", "h", "i", "j", "k", "l", "m", "n", "o", "p", "q", "r", "s", "t", "u", "v", "w", "x", "y", "z">>
DigitChars == <<"0", "1", "2", "3", "4", "5", "6", "7", "8", "9">>

Range(f) == {f[i] : i \in DOMAIN f}

\* str.lower() on one character
LowerChar(c) ==
  IF \E i \in 1..26 : UpperChars[i] = c
    THEN LowerChars[CHOOSE i \in 1..26 : UpperChars[i] = c]
    ELSE c

\* str.lower()
ToLower(s) == [i \in 1..Len(s) |-> LowerChar(s[i])]

\* regex \s
IsWs(c) == c \in {" ", "\t", "\n", "\r"}

\* regex [a-z]
IsLowerLetter(c) == c \in Range(LowerChars)

\* regex \w
IsWordChar(c) == c \in Range(LowerChars) \cup Range(UpperChars) \cup Range(DigitChars) \cup {"_"}

\* p occurs in s at index i
At(s, i, p) ==
  /\ i >= 1
  /\ i + Len(p) - 1 <= Len(s)
  /\ SubSeq(s, i, i + Len(p) - 1) = p

\* p in s
HasSub(s, p) == \E i \in 1..(Len(s) + 1) : At(s, i, p)

\* s.startswith(p)
StartsWith(s, p) == At(s, 1, p)

\* first index >= i that holds no whitespace (Len(s) + 1 when there is none):
\* where a greedy \s* or \s+ that starts at i ends
WsRunEnd(s, i) ==
  CHOOSE j \in i..(Len(s) + 1) :
    /\ \A k \in i..(j - 1) : IsWs(s[k])
    /\ j = Len(s) + 1 \/ ~IsWs(s[j])

\* regex $ at index i (end of text, or before a final newline)
AtEnd(s, i) == i = Len(s) + 1 \/ (i = Len(s) /\ s[i] = "\n")

\* \s*$ starting at index i
WsToEnd(s, i) == WsRunEnd(s, i) = Len(s) + 1

\* str.replace("\\", "/")
BackslashToSlash(s) == [i \in 1..Len(s) |-> IF s[i] = "\\" THEN "/" ELSE s[i]]

\* os.path.dirname: the text before the last separator
Dirname(path, sep) ==
  LET idx == {i \in 1..Len(path) : path[i] = sep}
      last == CHOOSE i \in idx : \A k \in idx : k <= i
  IN IF idx = {} THEN <<>> ELSE SubSeq(path, 1, last - 1)

\* str.split(): split on runs of whitespace
RECURSIVE SplitWs(_, _, _, _)
SplitWs(s, i, cur, acc) ==
  IF i > Len(s)
    THEN IF cur = <<>> THEN acc ELSE Append(acc, cur)
    ELSE IF IsWs(s[i])
      THEN SplitWs(s, i + 1, <<>>, IF cur = <<>> THEN acc ELSE Append(acc, cur))
      ELSE SplitWs(s, i + 1, Append(cur, s[i]), acc)

\* shlex.split (posix mode, no comments): [ok |-> FALSE] stands for ValueError.
\* q is the open quote ("" outside quotes), inTok whether a token has begun.
RECURSIVE Shlex(_, _, _, _, _, _)
Shlex(s, i, cur, inTok, q, acc) ==
  IF i > Len(s)
    THEN IF q # "" THEN [ok |-> FALSE, parts |-> <<>>]
         ELSE [ok |-> TRUE, parts |-> IF inTok THEN Append(acc, cur) ELSE acc]
    ELSE LET c == s[i] IN
      IF q = ""
        THEN IF IsWs(c)
               THEN Shlex(s, i + 1, <<>>, FALSE, "", IF inTok THEN Append(acc, cur) ELSE acc)
             ELSE IF c = "\\"
               THEN IF i = Len(s) THEN [ok |-> FALSE, parts |-> <<>>]
                    ELSE Shlex(s, i + 2, Append(cur, s[i + 1]), TRUE, "", acc)
             ELSE IF c \in {"'", "\""}
               THEN Shlex(s, i + 1, cur, TRUE, c, acc)
             ELSE Shlex(s, i + 1, Append(cur, c), TRUE, "", acc)
      ELSE IF q = "'"
        THEN IF c = "'" THEN Shlex(s, i + 1, cur, TRUE, "", acc)
             ELSE Shlex(s, i + 1, Append(cur, c), TRUE, q, acc)
      ELSE IF c = "\"" THEN Shlex(s, i + 1, cur, TRUE, "", acc)
           ELSE IF c = "\\"
             THEN IF i = Len(s) THEN [ok |-> FALSE, parts |-> <<>>]
                  ELSE IF s[i + 1] \in {"\"", "\\"}
                    THEN Shlex(s, i + 2, Append(cur, s[i + 1]), TRUE, q, acc)
                    ELSE Shlex(s, i + 2, cur \o <<c, s[i + 1]>>, TRUE, q, acc)
           ELSE Shlex(s, i + 1, Append(cur, c), TRUE, q, acc)

\* part.strip('"\'')
RECURSIVE StripQuotes(_)
StripQuotes(p) ==
  IF p = <<>> THEN p
  ELSE IF p[1] \in {"'", "\""} THEN StripQuotes(Tail(p))
  ELSE IF p[Len(p)] \in {"'", "\""} THEN StripQuotes(SubSeq(p, 1, Len(p) - 1))
  ELSE p

(***************************************************************************)
(* boundary-check.py: configuration                                        *)
(***************************************************************************)
ProjectDirName == <<"F", "S", "I", "-", "A", "g", "e", "n", "t", "G", "o", "v", "-", "S", "o", "l", "u", "t", "i", "o", "n", "s">>
FrameworkName == <<"F", "S", "I", "-", "A", "g", "e", "n", "t", "G", "o", "v">>
ClaudeDirName == <<".", "c", "l", "a", "u", "d", "e">>

\* where the checkout and the home directory are on the two platforms
CheckoutParentPosix == <<"/", "h", "o", "m", "e", "/", "u">>
CheckoutParentWin == <<"C", ":", "\\", "d", "e", "v">>
HomePosix == <<"/", "h", "o", "m", "e", "/", "u">>
HomeWin == <<"C", ":", "\\", "U", "s", "e", "r", "s", "\\", "u">>

PathSep(win) == IF win THEN "\\" ELSE "/"

PROJECT_ROOT(win) ==
  (IF win THEN CheckoutParentWin ELSE CheckoutParentPosix) \o <<PathSep(win)>> \o ProjectDirName

FRAMEWORK_ROOT(win) ==
  Dirname(PROJECT_ROOT(win), PathSep(win)) \o <<PathSep(win)>> \o FrameworkName

CLAUDE_GLOBAL_DIR(win) ==
  (IF win THEN HomeWin ELSE HomePosix) \o <<PathSep(win)>> \o ClaudeDirName

PROJECT_ROOT_UNIX(win) == BackslashToSlash(PROJECT_ROOT(win))
FRAMEWORK_ROOT_UNIX(win) == BackslashToSlash(FRAMEWORK_ROOT(win))
CLAUDE_GLOBAL_DIR_UNIX(win) == BackslashToSlash(CLAUDE_GLOBAL_DIR(win))

(***************************************************************************)
(* boundary-check.py: the risky patterns                                   *)
(***************************************************************************)
Str_traversal == <<".", ".", "/", ".", ".", "/", ".", ".", "/", ".", ".", "/">>
Str_rm == <<"r", "m">>
Str_dashr == <<"-", "r">>
Str_cd == <<"c", "d">>
Str_find == <<"f", "i", "n", "d">>
Str_ls == <<"l", "s">>
Str_dir == <<"d", "i", "r">>
Str_cdrive == <<"c", ":", "\\">>
Str_cslash == <<"/", "c", "/">>
Str_ddrive == <<"d", ":", "\\">>
Str_dslash == <<"/", "d", "/">>
Str_slashc == <<"/", "c">>
DevFsiBackslash == <<"d", "e", "v", "\\", "f", "s", "i", "-", "a", "g", "e", "n", "t", "g", "o", "v">>
DevFsiSlash == <<"d", "e", "v", "/", "f", "s", "i", "-", "a", "g", "e", "n", "t", "g", "o", "v">>

\* a traversal pattern that already fires on three levels
MatchesTraversal_Three(s) == HasSub(s, <<".", ".", "/", ".", ".", "/", ".", ".", "/">>)

\* r'\.\./\.\./\.\./\.\./'
MatchesTraversal(s) == HasSub(s, Str_traversal)

\* r'rm\s+-rf?\s+/' matched from index i; the index after the "/" (0: no match)
RmRootFrom(s, i) ==
  IF ~At(s, i, Str_rm) THEN 0
  ELSE LET j == WsRunEnd(s, i + 2) IN
    IF j = i + 2 \/ ~At(s, j, Str_dashr) THEN 0
    ELSE LET k == IF At(s, j + 2, <<"f">>) THEN j + 3 ELSE j + 2
             m == WsRunEnd(s, k)
         IN IF m = k \/ ~At(s, m, <<"/">>) THEN 0 ELSE m + 1

\* r'rm\s+-rf?\s+/$'
MatchesRmRoot(s) ==
  \E i \in 1..Len(s) : RmRootFrom(s, i) # 0 /\ AtEnd(s, RmRootFrom(s, i))

\* r'rm\s+-rf?\s+/\s*$'
MatchesRmRootWs(s) ==
  \E i \in 1..Len(s) : RmRootFrom(s, i) # 0 /\ WsToEnd(s, RmRootFrom(s, i))

\* (?<![a-z]) at index i
NoLetterBefore(s, i) == i = 1 \/ ~IsLowerLetter(s[i - 1])

\* r'(?<![a-z])c:\\(?!dev\\fsi-agentgov)'
MatchesCDrive(s) ==
  \E i \in 1..Len(s) :
    At(s, i, Str_cdrive) /\ NoLetterBefore(s, i) /\ ~At(s, i + 3, DevFsiBackslash)

\* r'(?<![a-z])/c/(?!dev/fsi-agentgov)'
MatchesCSlash(s) ==
  \E i \in 1..Len(s) :
    At(s, i, Str_cslash) /\ NoLetterBefore(s, i) /\ ~At(s, i + 3, DevFsiSlash)

\* r'(?<![a-z])d:\\'
MatchesDDrive(s) == \E i \in 1..Len(s) : At(s, i, Str_ddrive) /\ NoLetterBefore(s, i)

\* r'(?<![a-z])/d/'
MatchesDSlash(s) == \E i \in 1..Len(s) : At(s, i, Str_dslash) /\ NoLetterBefore(s, i)

\* r'^word\s+' followed by the text rest; the index after rest (0: no match)
AnchoredThen(s, word, rest) ==
  IF ~StartsWith(s, word) THEN 0
  ELSE LET j == WsRunEnd(s, Len(word) + 1) IN
    IF j = Len(word) + 1 \/ ~At(s, j, rest) THEN 0 ELSE j + Len(rest)

\* r'^find\s+/c\b'
MatchesFindC(s) ==
  LET e == AnchoredThen(s, Str_find, Str_slashc)
  IN e # 0 /\ (e = Len(s) + 1 \/ ~IsWordChar(s[e]))

\* r'^find\s+c:\\'
MatchesFindCDrive(s) == AnchoredThen(s, Str_find, Str_cdrive) # 0

\* r'^ls\s+/c\s*$'
MatchesLsC(s) ==
  LET e == AnchoredThen(s, Str_ls, Str_slashc) IN e # 0 /\ WsToEnd(s, e)

\* r'^dir\s+c:\\s*$': in the raw string \\ is a backslash and s* a run of "s"
MatchesDirC(s) ==
  LET e == AnchoredThen(s, Str_dir, Str_cdrive)
      f == IF e = 0 THEN 0
           ELSE CHOOSE j \in e..(Len(s) + 1) :
                  /\ \A k \in e..(j - 1) : s[k] = "s"
                  /\ j = Len(s) + 1 \/ s[j] # "s"
  IN e # 0 /\ AtEnd(s, f)

\* risky_patterns, in list order: the reason of the first that matches, "" if none
RiskyReason(s, win) ==
  IF MatchesTraversal(s) THEN "Excessive parent directory traversal"
  ELSE IF MatchesRmRoot(s) \/ MatchesRmRootWs(s) THEN "Recursive delete from root"
  ELSE IF ~win THEN ""
  ELSE IF MatchesCDrive(s) THEN "Absolute C:\\ path outside project"
  ELSE IF MatchesCSlash(s) THEN "Unix-style /c/ path outside project"
  ELSE IF MatchesDDrive(s) THEN "D:\\ drive access"
  ELSE IF MatchesDSlash(s) THEN "Unix-style /d/ access"
  ELSE IF MatchesFindC(s) \/ MatchesFindCDrive(s) THEN "find command on C: root"
  ELSE IF MatchesLsC(s) THEN "ls on C: root"
  ELSE IF MatchesDirC(s) THEN "dir on C: root"
  ELSE ""

(***************************************************************************)
(* boundary-check.py: the safe patterns                                    *)
(***************************************************************************)
SafeCommandWords ==
  << <<"g", "i", "t">>,
     <<"m", "k", "d", "o", "c", "s">>,
     <<"p", "y", "t", "h", "o", "n">>,
     <<"p", "y", "t", "h", "o", "n", "3">>,
     <<"p", "i", "p">>,
     <<"n", "p", "m">>,
     <<"s", "o", "u", "r", "c", "e">>,
     <<"w", "h", "i", "c", "h">>,
     <<"e", "c", "h", "o">>,
     <<"m", "k", "d", "i", "r">>,
     <<"l", "s">>,
     <<"w", "c">>,
     <<"r", "m">> >>

\* r'cd\s+["\']?\.'
MatchesCdRelative(s) ==
  \E i \in 1..Len(s) :
    /\ At(s, i, Str_cd)
    /\ LET j == WsRunEnd(s, i + 2) IN
         /\ j > i + 2
         /\ \/ At(s, j, <<".">>)
            \/ (j <= Len(s) /\ s[j] \in {"'", "\""} /\ At(s, j + 1, <<".">>))

\* r'^word\s+'
MatchesLeadingWord(s, word) == StartsWith(s, word) /\ Len(s) > Len(word) /\ IsWs(s[Len(word) + 1])

\* any of safe_patterns matches
MatchesSafePattern(s) ==
  \/ MatchesCdRelative(s)
  \/ \E n \in DOMAIN SafeCommandWords : MatchesLeadingWord(s, SafeCommandWords[n])

(***************************************************************************)
(* boundary-check.py: check_command                                        *)
(***************************************************************************)
\* the loop over command_parts: some part is an absolute path outside the roots
HasDisallowedAbsolutePath(command_lower, win) ==
  LET sh == Shlex(command_lower, 1, <<>>, FALSE, "", <<>>)
      command_parts == IF sh.ok THEN sh.parts ELSE SplitWs(command_lower, 1, <<>>, <<>>)
      project_lower == ToLower(PROJECT_ROOT(win))
      framework_lower == ToLower(FRAMEWORK_ROOT(win))
      claude_global_lower == ToLower(CLAUDE_GLOBAL_DIR(win))
  IN \E n \in DOMAIN command_parts :
       LET part_clean == StripQuotes(command_parts[n]) IN
         /\ StartsWith(part_clean, <<"/">>)
         /\ ~StartsWith(part_clean, project_lower)
         /\ ~StartsWith(part_clean, framework_lower)
         /\ ~StartsWith(part_clean, claude_global_lower)

\* r'(?<![a-z])[a-z]:\\|^/'
MatchesAnyAbsolute(s) ==
  \/ \E i \in 1..Len(s) :
       /\ i + 2 <= Len(s)
       /\ IsLowerLetter(s[i]) /\ s[i + 1] = ":" /\ s[i + 2] = "\\"
       /\ NoLetterBefore(s, i)
  \/ StartsWith(s, <<"/">>)

\* everything check_command does after the risky patterns did not match
AfterRiskyPatterns(cmd, win) ==
  LET command_lower == ToLower(cmd)
      project_lower == ToLower(PROJECT_ROOT(win))
      framework_lower == ToLower(FRAMEWORK_ROOT(win))
      claude_global_lower == ToLower(CLAUDE_GLOBAL_DIR(win))
  IN
  IF HasSub(command_lower, project_lower) \/ HasSub(command_lower, ToLower(PROJECT_ROOT_UNIX(win)))
    THEN [allow |-> TRUE, reason |-> "Command explicitly targets project directory"]
  ELSE IF HasSub(command_lower, framework_lower) \/ HasSub(command_lower, ToLower(FRAMEWORK_ROOT_UNIX(win)))
    THEN [allow |-> TRUE, reason |-> "Command targets companion Framework repository"]
  ELSE IF HasSub(command_lower, claude_global_lower) \/ HasSub(command_lower, ToLower(CLAUDE_GLOBAL_DIR_UNIX(win)))
    THEN [allow |-> TRUE, reason |-> "Command targets Claude global directory"]
  ELSE IF MatchesSafePattern(command_lower)
    THEN [allow |-> TRUE, reason |-> "Command matches safe pattern"]
  ELSE IF ~win
    THEN IF ~HasDisallowedAbsolutePath(command_lower, win)
           THEN [allow |-> TRUE, reason |-> "No disallowed absolute paths detected"]
         ELSE IF \/ HasSub(command_lower, project_lower)
                 \/ HasSub(command_lower, framework_lower)
                 \/ HasSub(command_lower, claude_global_lower)
           THEN [allow |-> TRUE, reason |-> "Command targets allowed directory"]
         ELSE [allow |-> TRUE, reason |-> "Command allowed by default"]
  ELSE IF ~MatchesAnyAbsolute(command_lower)
    THEN [allow |-> TRUE, reason |-> "No absolute paths detected"]
  ELSE [allow |-> TRUE, reason |-> "Command allowed by default"]

\* a check_command that looks at the allow rules before the risky patterns
check_command_AllowFirst(cmd, win) ==
  LET rest == AfterRiskyPatterns(cmd, win)
      risky == RiskyReason(ToLower(cmd), win)
  IN IF rest.reason # "Command allowed by default" /\ rest.reason # "No absolute paths detected"
          /\ rest.reason # "No disallowed absolute paths detected"
       THEN rest
     ELSE IF risky # "" THEN [allow |-> FALSE, reason |-> risky]
     ELSE rest

\* check_command(command) -> (allow, reason)
check_command(cmd, win) ==
  LET risky == RiskyReason(ToLower(cmd), win)
  IN IF risky # "" THEN [allow |-> FALSE, reason |-> risky]
     ELSE AfterRiskyPatterns(cmd, win)

(***************************************************************************)
(* boundary-check.py: the commands checked                                 *)
(***************************************************************************)
\* longest command checked, in words
MaxParts == 3

W_rf == <<"-", "r", "f">>
W_root == <<"/">>
W_cat == <<"c", "a", "t">>
W_passwd == <<"/", "e", "t", "c", "/", "p", "a", "s", "s", "w", "d">>
W_climb4 == <<".", ".", "/", ".", ".", "/", ".", ".", "/", ".", ".", "/", "x">>
W_climb3 == <<".", ".", "/", ".", ".", "/", ".", ".", "/", "x">>
W_reld == <<".", "/", "d", "/", "x">>

\* the words commands are built from
Vocabulary ==
  { Str_rm, W_rf, W_root, W_cat, W_passwd, W_climb4, W_climb3, W_reld,
    PROJECT_ROOT(FALSE) }

RECURSIVE JoinWords(_)
JoinWords(ws) ==
  IF Len(ws) = 0 THEN <<>>
  ELSE IF Len(ws) = 1 THEN ws[1]
  ELSE ws[1] \o <<" ">> \o JoinWords(Tail(ws))

Commands == { JoinWords(ws) : ws \in UNION { [1..n -> Vocabulary] : n \in 1..MaxParts } }

\* the two hooks: src/scripts/hooks and src/pipeline-governance-cleanup
HOOKS == {"framework", "pipeline-governance-cleanup"}

\* what stdin may hold: nothing or blanks; bytes that are no text; text that
\* is no JSON; JSON that is no object; an object without tool_input, with a
\* tool_input that is no object, without command or with an empty one, with
\* a command that is no string; an object with a command string
STDIN_INPUTS ==
  { "empty", "undecodable", "invalid_json", "not_object", "no_tool_input", "bad_tool_input",
    "no_command", "command_not_string", "command" }

CmdIdle ==
  /\ command = <<>>
  /\ is_windows = FALSE
  /\ decision = "pending"
  /\ reason = ""
  /\ hook = "framework"
  /\ stdin = "command"
  /\ printed = <<>>

CmdInit ==
  /\ hook \in HOOKS
  /\ stdin \in STDIN_INPUTS
  /\ command \in (IF stdin = "command" THEN Commands ELSE {<<>>})
  /\ is_windows \in BOOLEAN
  /\ decision = "pending"
  /\ reason = ""
  /\ printed = <<>>

\* the decision printed by the handler of "except Exception"
HookOnError_Block == "block"

HookOnError == "allow"

\* main(): the pass-through hook prints "allow"; the framework hook reads
\* stdin, answers "allow" to an input without a command and to one that is
\* no JSON, hands the command to check_command and prints its verdict; an
\* exception raised on the way (sys.stdin.read on bytes that are no text,
\* .get on a value that is no dict, .lower on a command that is no string)
\* is answered by the last handler
HookCheck ==
  /\ decision = "pending"
  /\ LET r == check_command(command, is_windows)
         out == CASE hook # "framework" -> [decision |-> "allow", with |-> "nothing"]
                  [] stdin \in {"empty", "invalid_json", "no_tool_input", "no_command"} ->
                       [decision |-> "allow", with |-> "nothing"]
                  [] stdin \in {"undecodable", "not_object", "bad_tool_input",
                                "command_not_string"} ->
                       [decision |-> HookOnError, with |-> "message"]
                  [] OTHER -> IF r.allow THEN [decision |-> "allow", with |-> "nothing"]
                              ELSE [decision |-> "block", with |-> "reason"]
     IN /\ decision' = out.decision
        /\ reason' = IF out.with = "reason" THEN r.reason ELSE ""
        /\ printed' = Append(printed, out)
  /\ UNCHANGED <<command, is_windows, hook, stdin>>

(***************************************************************************)
(* deploy_mcg.py: DataverseClient._request                                 *)
(***************************************************************************)
\* for attempt in range(3)
RETRY_ATTEMPTS == 3
\* response.headers.get("Retry-After", 30)
DEFAULT_RETRY_AFTER == 30
\* the Retry-After header is absent
NoHeader == <<>>

HttpStatuses == {200, 204, 404, 429, 500}
RetryAfterHeaders == {NoHeader, <<1>>, <<7>>}

\* a retry delay that ignores the header
RetryAfterSeconds_Ignored(resp) == DEFAULT_RETRY_AFTER

\* int(response.headers.get("Retry-After", 30))
RetryAfterSeconds(resp) ==
  IF resp.retry_after = NoHeader THEN DEFAULT_RETRY_AFTER ELSE resp.retry_after[1]

\* a loop that goes round once more
LoopHasNext_OneMore(attempts) == attempts < RETRY_ATTEMPTS + 1

\* range(3) has a next attempt
LoopHasNext(attempts) == attempts < RETRY_ATTEMPTS

ReqIdle ==
  /\ rq_pc = "idle"
  /\ rq_attempts = 0
  /\ rq_responses = <<>>
  /\ rq_slept = <<>>

\* _request is entered
Request_Call ==
  /\ rq_pc = "idle"
  /\ rq_pc' = "send"
  /\ UNCHANGED <<rq_attempts, rq_responses, rq_slept>>

\* a client that also waits and sends again after a server error
Request_Send_RetryServerError ==
  /\ rq_pc = "send"
  /\ \E st \in HttpStatuses, ra \in RetryAfterHeaders :
       /\ rq_responses' = Append(rq_responses, [status |-> st, retry_after |-> ra])
       /\ rq_attempts' = rq_attempts + 1
       /\ rq_pc' = IF st \in {429, 500} THEN "sleep" ELSE "returned"
  /\ UNCHANGED rq_slept

\* response = self.session.request(...); 429 goes to the sleep, anything else returns
Request_Send ==
  /\ rq_pc = "send"
  /\ \E st \in HttpStatuses, ra \in RetryAfterHeaders :
       /\ rq_responses' = Append(rq_responses, [status |-> st, retry_after |-> ra])
       /\ rq_attempts' = rq_attempts + 1
       /\ rq_pc' = IF st = 429 THEN "sleep" ELSE "returned"
  /\ UNCHANGED rq_slept

\* time.sleep(retry_after); continue; the loop's end raises
Request_Sleep ==
  /\ rq_pc = "sleep"
  /\ rq_slept' = Append(rq_slept, RetryAfterSeconds(rq_responses[Len(rq_responses)]))
  /\ rq_pc' = IF LoopHasNext(rq_attempts) THEN "send" ELSE "raised"
  /\ UNCHANGED <<rq_attempts, rq_responses>>

(***************************************************************************)
(* deploy_mcg.py: the definitions deployed.  Every list keeps the order of *)
(* the script; the column, view, role and privilege lists are cut to their *)
(* first entries, which go through the same code as the rest.              *)
(***************************************************************************)
\* most runs of deploy() against the one environment
MaxRuns == 2
\* most failing remote calls over all runs
MaxFaults == 1

NoKey == <<"", "", "">>
PublisherKey == <<"publisher", "", "mcg">>
SolutionKey == <<"solution", "", "MessageCenterGovernance">>
TableKey(t) == <<"table", "", t>>
AlternateKey == <<"key", "mcg_messagecenterpost", "mcg_MessageCenterIdKey">>
FormKey == <<"form", "mcg_messagecenterpost", "Main Form">>
BpfKey == <<"bpf", "", "mcg_mcggovernanceprocess">>
AppKey == <<"app", "", "mcg_MessageCenterGovernance">>
RoleKey(r) == <<"role", "", r>>

TABLE_DEFINITIONS == <<"mcg_messagecenterpost", "mcg_assessmentlog", "mcg_decisionlog">>

TableColumns(t) ==
  CASE t = "mcg_messagecenterpost" -> <<"mcg_MessageCenterId">>
    [] t = "mcg_assessmentlog" -> <<"mcg_AssessedOn">>
    [] t = "mcg_decisionlog" -> <<"mcg_DecidedOn">>

TableLookups(t) ==
  CASE t = "mcg_messagecenterpost" -> <<"mcg_ClosedBy">>
    [] t = "mcg_assessmentlog" -> <<>>
    [] t = "mcg_decisionlog" -> <<"mcg_DecidedBy">>

RELATIONSHIP_DEFINITIONS ==
  << <<"relationship", "mcg_assessmentlog", "mcg_messagecenterpost_assessmentlogs">>,
     <<"relationship", "mcg_decisionlog", "mcg_messagecenterpost_decisionlogs">> >>

ENVIRONMENT_VARIABLE_DEFINITIONS ==
  << <<"envvar", "", "mcg_TenantId">>, <<"envvar", "", "mcg_PollingInterval">> >>

\* "default_value" in var_def
HasDefaultValue(k) == k = <<"envvar", "", "mcg_PollingInterval">>

VIEW_DEFINITIONS ==
  << <<"view", "mcg_messagecenterpost", "All Open Posts">>,
     <<"view", "mcg_messagecenterpost", "High Severity Posts">> >>

ROLE_DEFINITIONS == <<"MC Admin", "MC Auditor">>

\* a definition that lets MC Admin delete decisions
RolePrivileges_WithDelete(r) ==
  IF r = "MC Admin"
    THEN << <<"Create", "mcg_messagecenterpost">>, <<"Delete", "mcg_decisionlog">> >>
    ELSE << <<"Read", "mcg_assessmentlog">> >>

\* role_def["privileges"] as <<priv_type, entity_name>>, i.e. prv{priv_type}{entity_name}
RolePrivileges(r) ==
  CASE r = "MC Admin" -> << <<"Create", "mcg_messagecenterpost">>, <<"Read", "mcg_decisionlog">> >>
    [] r = "MC Auditor" -> << <<"Read", "mcg_assessmentlog">> >>

\* app_def["entities"]
APP_ENTITIES == TABLE_DEFINITIONS

\* role_names of associate_roles_to_app, then the Basic User role
APP_ROLE_NAMES == ROLE_DEFINITIONS \o <<"Basic User">>

Op(method, key) == [m |-> method, k |-> key]

\* a table's steps with the columns put before the table
TableOps_ColumnsFirst(t) ==
  [i \in 1..Len(TableColumns(t)) |-> Op("add_column", <<"column", t, TableColumns(t)[i]>>)]
  \o <<Op("create_table", TableKey(t))>>
  \o [i \in 1..Len(TableLookups(t)) |-> Op("add_lookup_column", <<"column", t, TableLookups(t)[i]>>)]

\* deploy(): create_table, then add_column for each column, then add_lookup_column
TableOps(t) ==
  <<Op("create_table", TableKey(t))>>
  \o [i \in 1..Len(TableColumns(t)) |-> Op("add_column", <<"column", t, TableColumns(t)[i]>>)]
  \o [i \in 1..Len(TableLookups(t)) |-> Op("add_lookup_column", <<"column", t, TableLookups(t)[i]>>)]

OpsOver(method, keys) == [i \in 1..Len(keys) |-> Op(method, keys[i])]

\* deploy(): the calls of the 19 steps, in order
Program ==
  << Op("authenticate", NoKey),
     Op("get_or_create_publisher", PublisherKey),
     Op("get_or_create_solution", SolutionKey) >>
  \o TableOps(TABLE_DEFINITIONS[1]) \o TableOps(TABLE_DEFINITIONS[2]) \o TableOps(TABLE_DEFINITIONS[3])
  \o OpsOver("create_relationship", RELATIONSHIP_DEFINITIONS)
  \o << Op("create_alternate_key", AlternateKey), Op("wait_for_alternate_key", AlternateKey) >>
  \o OpsOver("create_environment_variable", ENVIRONMENT_VARIABLE_DEFINITIONS)
  \o OpsOver("create_view", VIEW_DEFINITIONS)
  \o << Op("create_form", FormKey),
        Op("create_business_process_flow", BpfKey),
        Op("publish_all", <<"publish", "", "first">>) >>
  \o [i \in 1..Len(TABLE_DEFINITIONS) |-> Op("wait_for_privileges", TableKey(TABLE_DEFINITIONS[i]))]
  \o << Op("get_root_business_unit", NoKey) >>
  \o [i \in 1..Len(ROLE_DEFINITIONS) |-> Op("create_security_role", RoleKey(ROLE_DEFINITIONS[i]))]
  \o << Op("create_model_driven_app", AppKey), Op("deploy_app_lookup", AppKey) >>
  \o OpsOver("add_components_to_app", VIEW_DEFINITIONS \o <<FormKey, BpfKey>>)
  \o << Op("associate_roles_to_app", AppKey),
        Op("publish_all", <<"publish", "", "final">>) >>
  \o [i \in 1..Len(TABLE_DEFINITIONS) |-> Op("verify_deployment", TableKey(TABLE_DEFINITIONS[i]))]
  \o [i \in 1..Len(ROLE_DEFINITIONS) |-> Op("verify_deployment", RoleKey(ROLE_DEFINITIONS[i]))]
  \o << Op("verify_deployment", AppKey) >>
  \o OpsOver("verify_deployment", ENVIRONMENT_VARIABLE_DEFINITIONS \o VIEW_DEFINITIONS)

\* the resources with a natural key that the environment can hold
ResourceKeys ==
  ({Program[i].k : i \in 1..Len(Program)}
     \ {NoKey, <<"publish", "", "first">>, <<"publish", "", "final">>})
  \cup {RoleKey("Basic User")}

(***************************************************************************)
(* deploy_mcg.py: the Dataverse environment and one step of deploy().      *)
(* Every action is one request and its answer.  The environment answers a  *)
(* successful lookup truthfully and there is no other writer.              *)
(***************************************************************************)
Pc(i, ph, j) == [i |-> i, ph |-> ph, j |-> j]

\* deploy() is not running: "idle", "done" (returned) or "aborted" (raised)
Stopped(ph) == Pc(0, ph, 0)

Cur == Program[m_pc.i]

Running(method) == m_pc.i > 0 /\ Cur.m = method

IndexOf(method, key) == CHOOSE i \in 1..Len(Program) : Program[i] = Op(method, key)

\* the statement after the current call
AfterOp == IF m_pc.i = Len(Program) THEN Stopped("done") ELSE Pc(m_pc.i + 1, "start", 0)

\* a lookup that never finds the resource
Exists_Never(k) == FALSE

\* the answer to a request: success, a non-success status, or _request raising
Outcomes == IF m_faults < MaxFaults THEN {"ok", "err", "exc"} ELSE {"ok"}

Exists(k) == m_remote.res[k] > 0

\* the environment after a successful create POST
Created(k) ==
  [m_remote EXCEPT !.res[k] = @ + 1,
                   !.unpublished = TRUE,
                   !.keyStatus = IF k = AlternateKey THEN "Pending" ELSE @]

\* what a run leaves behind, without the privilege records the platform adds
Snapshot(r) == [r EXCEPT !.privReady = {}]

\* the run's record: requests issued, lookups that found nothing, the latest
\* failed call and whether a request followed it
\* results of verify_deployment before its first request
NoResults ==
  [tables |-> <<>>, roles |-> <<>>, app |-> <<>>, env_vars |-> <<>>, views |-> <<>>,
   issues |-> <<>>]

\* a verification that reports a missing resource as found
Verified_AllFound(ph, o) ==
  IF o # "ok" \/ Cur.k[1] # "table" THEN m_log.results
  ELSE [m_log.results EXCEPT !.tables = Append(@, Cur.k)]

\* verify_deployment: what the answer to one GET adds to results; a role is
\* entered with its privilege count after the second GET
Verified(ph, o) ==
  LET r == m_log.results
      k == Cur.k
      count == Cardinality({p \in m_remote.rolePrivs : p[1] = k[3]})
  IN IF o # "ok" THEN r
     ELSE IF ph = "privcount"
       THEN [r EXCEPT !.roles = Append(@, <<k, count>>),
                      !.issues = IF count = 0 THEN Append(@, <<"ZERO privileges", k>>) ELSE @]
     ELSE IF ~Exists(k) THEN [r EXCEPT !.issues = Append(@, <<"not found", k>>)]
     ELSE CASE k[1] = "table" -> [r EXCEPT !.tables = Append(@, k)]
            [] k[1] = "app" -> [r EXCEPT !.app = <<k>>]
            [] k[1] = "envvar" -> [r EXCEPT !.env_vars = Append(@, k)]
            [] k[1] = "view" -> [r EXCEPT !.views = Append(@, k)]
            [] OTHER -> r

\* failures.append(...) of create_security_role: the privilege of the role
\* that was not found, or whose assignment was answered with another status
\* than 200 or 204
Failure(role, priv) == <<"failure", "create_security_role", priv[1], <<"priv", priv[2], role>>>>

Failures(ph, o, tolerated, more) ==
  IF Cur.m = "create_security_role"
       /\ \/ ph = "privadd" /\ tolerated
          \/ ph = "privget" /\ o = "ok" /\ \E e \in more : e[1] = "absent"
    THEN {Failure(Cur.k[3], RolePrivileges(Cur.k[3])[m_pc.j])}
    ELSE {}

\* the request of the current call at phase ph: the polls of a wait are one
\* request issued again, the items of a loop are requests of their own
RequestId(ph) ==
  <<Cur.m, ph, Cur.k,
    IF Cur.m \in {"wait_for_alternate_key", "wait_for_privileges"} THEN 0 ELSE m_pc.j>>

Logged(ph, o, tolerated, more) ==
  [m_log EXCEPT
     !.failed = IF o = "ok" THEN @ ELSE @ \cup {RequestId(ph)},
     !.reissued = @ \/ RequestId(ph) \in m_log.failed,
     !.results = IF Cur.m = "verify_deployment" THEN Verified(ph, o) ELSE @,
     !.issued = @ \cup {<<"req", Cur.m, ph, Cur.k>>} \cup (IF o = "ok" THEN more ELSE {})
                  \cup Failures(ph, o, tolerated, more),
     !.lastFail = IF o = "ok" THEN @ ELSE <<Cur.m, ph, o>>,
     !.cont = IF o = "ok" THEN (@ \/ m_log.lastFail # <<>>) ELSE FALSE,
     !.degraded = \/ @
                  \/ tolerated
                  \/ (o = "ok" /\ \E e \in more : e[1] \in {"timeout", "absent"})]

\* one request at phase ph answered with o: on success go to pcOk with the
\* environment remoteOk; a failure listed in soft is warned about and the run
\* goes on as after a success; any other failure raises out of deploy()
\* (the return of create_security_role is noted for the run)
Do(ph, o, soft, pcOk, remoteOk, more) ==
  LET tolerated == o # "ok" /\ o \in soft
      aborts == o # "ok" /\ o \notin soft
      pcNext == IF aborts THEN Stopped("aborted") ELSE pcOk
  IN /\ m_faults' = IF o = "ok" THEN m_faults ELSE m_faults + 1
     /\ m_pc' = pcNext
     /\ m_remote' = IF o = "ok" THEN remoteOk ELSE m_remote
     /\ m_log' = IF Cur.m = "create_security_role" /\ pcNext.i = m_pc.i + 1
                    THEN [Logged(ph, o, tolerated, more) EXCEPT
                            !.issued = @ \cup {<<"returned", Cur.m, "", Cur.k>>}]
                    ELSE Logged(ph, o, tolerated, more)
     /\ m_existing' = IF pcNext.i # m_pc.i THEN {}
                      ELSE IF Cur.m = "associate_roles_to_app" /\ ph = "start"
                             THEN m_remote.appRoles
                             ELSE m_existing
     /\ UNCHANGED m_run

McgIdle ==
  /\ m_pc = Stopped("idle")
  /\ m_run = 0
  /\ m_faults = 0
  /\ m_existing = {}
  /\ m_remote = [res |-> [k \in ResourceKeys |-> IF k = RoleKey("Basic User") THEN 1 ELSE 0],
                 rolePrivs |-> {}, envValues |-> {}, appComps |-> {}, appRoles |-> {},
                 keyStatus |-> "none", published |-> {}, privReady |-> {},
                 unpublished |-> FALSE]
  /\ m_log = [issued |-> {}, lastFail |-> <<>>, cont |-> FALSE, degraded |-> FALSE,
              prev |-> "idle", snap |-> <<>>, results |-> NoResults,
              failed |-> {}, reissued |-> FALSE]

\* main(): deploy() is called; the operator may run the script again
StartRun ==
  /\ m_pc.i = 0
  /\ m_run < MaxRuns
  /\ m_run' = m_run + 1
  /\ m_pc' = Pc(1, "start", 0)
  /\ m_log' = [issued |-> {}, lastFail |-> <<>>, cont |-> FALSE,
               degraded |-> m_log.degraded, prev |-> m_pc.ph, snap |-> Snapshot(m_remote),
               results |-> NoResults, failed |-> {}, reissued |-> FALSE]
  /\ UNCHANGED <<m_faults, m_existing, m_remote>>

\* authenticate(): acquire_token_for_client, raising without an access token
Authenticate ==
  /\ Running("authenticate")
  /\ \E o \in Outcomes \ {"err"} : Do("start", o, {}, AfterOp, m_remote, {})

\* a create call whose failure would only be warned about
LookupThenCreate_Soft(o, soft, pcCreated) ==
  IF m_pc.ph = "start"
    THEN Do("start", o, {},
            IF Exists(Cur.k) THEN AfterOp ELSE Pc(m_pc.i, "create", 0), m_remote,
            IF Exists(Cur.k) THEN {} ELSE {<<"miss", Cur.m, "start", Cur.k>>})
    ELSE Do("create", o, {"err", "exc"}, pcCreated, Created(Cur.k), {})

\* the GET by natural key, the early return when it matches, else the create POST
LookupThenCreate(o, soft, pcCreated) ==
  IF m_pc.ph = "start"
    THEN Do("start", o, {},
            IF Exists(Cur.k) THEN AfterOp ELSE Pc(m_pc.i, "create", 0), m_remote,
            IF Exists(Cur.k) THEN {} ELSE {<<"miss", Cur.m, "start", Cur.k>>})
    ELSE Do("create", o, soft, pcCreated, Created(Cur.k), {})

GetOrCreatePublisher ==
  /\ Running("get_or_create_publisher")
  /\ \E o \in Outcomes, header \in BOOLEAN :
       IF m_pc.ph = "refetch"
         THEN header /\ Do("refetch", o, {}, AfterOp, m_remote, {})
         ELSE /\ (m_pc.ph = "start" => header)
              /\ LookupThenCreate(o, {}, IF header THEN AfterOp ELSE Pc(m_pc.i, "refetch", 0))

GetOrCreateSolution ==
  /\ Running("get_or_create_solution")
  /\ \E o \in Outcomes :
       IF m_pc.ph = "refetch"
         THEN Do("refetch", o, {}, AfterOp, m_remote, {})
         ELSE LookupThenCreate(o, {}, Pc(m_pc.i, "refetch", 0))

CreateTable ==
  /\ Running("create_table")
  /\ \E o \in Outcomes : LookupThenCreate(o, {}, AfterOp)

AddColumn ==
  /\ Running("add_column")
  /\ \E o \in Outcomes : LookupThenCreate(o, {}, AfterOp)

AddLookupColumn ==
  /\ Running("add_lookup_column")
  /\ \E o \in Outcomes : LookupThenCreate(o, {}, AfterOp)

CreateRelationship ==
  /\ Running("create_relationship")
  /\ \E o \in Outcomes : LookupThenCreate(o, {}, AfterOp)

CreateAlternateKey ==
  /\ Running("create_alternate_key")
  /\ \E o \in Outcomes : LookupThenCreate(o, {}, AfterOp)

\* the polls that fit into the timeout of wait_for_alternate_key (120 s, with
\* 5 s of sleep after each poll)
MaxPolls == 3

\* a wait that takes a key that is still being built for an active one
WaitForAlternateKey_Impatient ==
  /\ Running("wait_for_alternate_key")
  /\ \E o \in Outcomes :
       Do("start", o, {},
          IF m_remote.keyStatus = "Failed" THEN Stopped("aborted") ELSE AfterOp,
          m_remote, {<<"active", "wait_for_alternate_key", "start", Cur.k>>})

\* one poll of the key: the wait returns on Active, raises on Failed, and
\* otherwise sleeps; the polls so far are counted in m_pc.j, and between two
\* polls the 120 s may have run out, as they have after the last poll that
\* fits into them
WaitForAlternateKey ==
  /\ Running("wait_for_alternate_key")
  /\ \E o \in Outcomes,
        timeout \in (IF m_pc.j + 1 >= MaxPolls THEN {TRUE} ELSE BOOLEAN) :
       LET event == CASE m_remote.keyStatus = "Active" -> "active"
                      [] m_remote.keyStatus = "Failed" -> "failed"
                      [] OTHER -> IF timeout THEN "expired" ELSE "pending"
       IN Do("start", o, {},
             CASE event = "active" -> AfterOp
               [] event = "pending" -> Pc(m_pc.i, "start", m_pc.j + 1)
               [] OTHER -> Stopped("aborted"),
             m_remote, {<<event, "wait_for_alternate_key", "start", Cur.k>>})

CreateEnvironmentVariable ==
  /\ Running("create_environment_variable")
  /\ \E o \in Outcomes :
       CASE m_pc.ph = "refetch" ->
              Do("refetch", o, {},
                 IF HasDefaultValue(Cur.k) THEN Pc(m_pc.i, "value", 0) ELSE AfterOp,
                 m_remote, {})
         [] m_pc.ph = "value" ->
              Do("value", o, {"err"}, AfterOp,
                 [m_remote EXCEPT !.envValues = @ \cup {Cur.k}], {})
         [] OTHER -> LookupThenCreate(o, {}, Pc(m_pc.i, "refetch", 0))

CreateView ==
  /\ Running("create_view")
  /\ \E o \in Outcomes : LookupThenCreate(o, {}, AfterOp)

CreateForm ==
  /\ Running("create_form")
  /\ \E o \in Outcomes : LookupThenCreate(o, {}, AfterOp)

\* a non-success status of the workflows POST is only warned about
CreateBusinessProcessFlow ==
  /\ Running("create_business_process_flow")
  /\ \E o \in Outcomes : LookupThenCreate(o, {"err"}, AfterOp)

PublishAll ==
  /\ Running("publish_all")
  /\ \E o \in Outcomes :
       Do("start", o, {}, AfterOp,
          [m_remote EXCEPT !.unpublished = FALSE,
                           !.published = {k \in ResourceKeys : k[1] = "table" /\ Exists(k)}],
          {<<"ok", "publish_all", "start", Cur.k>>})

\* one poll for prvRead{entity}; a timeout ends the waiting (deploy() breaks
\* out of its loop and goes on with a warning)
WaitForPrivileges ==
  /\ Running("wait_for_privileges")
  /\ \E o \in Outcomes, timeout \in BOOLEAN :
       LET ready == Cur.k \in m_remote.privReady
           last == Program[m_pc.i + 1].m # "wait_for_privileges"
           over == <<"done", "wait_for_privileges", "", NoKey>>
       IN /\ (ready => timeout)
          /\ Do("start", o, {},
                IF ready THEN AfterOp
                ELSE IF timeout THEN Pc(IndexOf("get_root_business_unit", NoKey), "start", 0)
                ELSE m_pc,
                m_remote,
                IF ready THEN (IF last THEN {over} ELSE {})
                ELSE IF timeout THEN {over, <<"timeout", "wait_for_privileges", "", Cur.k>>}
                ELSE {})

GetRootBusinessUnit ==
  /\ Running("get_root_business_unit")
  /\ \E o \in Outcomes : Do("start", o, {}, AfterOp, m_remote, {})

\* the role is looked up, created, fetched again, and then each privilege of
\* its definition is looked up and added; an existing role returns at once
CreateSecurityRole ==
  /\ Running("create_security_role")
  /\ \E o \in Outcomes :
       LET privs == RolePrivileges(Cur.k[3])
           j == m_pc.j
           nextPriv == IF j < Len(privs) THEN Pc(m_pc.i, "privget", j + 1) ELSE AfterOp
           found == TableKey(privs[j][2]) \in m_remote.privReady
       IN CASE m_pc.ph = "refetch" ->
                 Do("refetch", o, {}, Pc(m_pc.i, "privget", 1), m_remote, {})
            [] m_pc.ph = "privget" ->
                 Do("privget", o, {},
                    IF found THEN Pc(m_pc.i, "privadd", j) ELSE nextPriv, m_remote,
                    IF found THEN {} ELSE {<<"absent", "get_privilege_id", "", Cur.k>>})
            [] m_pc.ph = "privadd" ->
                 Do("privadd", o, {"err"}, nextPriv,
                    [m_remote EXCEPT !.rolePrivs = @ \cup {<<Cur.k[3], privs[j]>>}], {})
            [] OTHER -> LookupThenCreate(o, {}, Pc(m_pc.i, "refetch", 0))

\* the app is looked up, created, fetched again, and then each entity of its
\* definition is added as a component; an existing app returns at once
CreateModelDrivenApp ==
  /\ Running("create_model_driven_app")
  /\ \E o \in Outcomes :
       LET j == m_pc.j
           nextEntity == IF j < Len(APP_ENTITIES) THEN Pc(m_pc.i, "metaget", j + 1) ELSE AfterOp
           entity == TableKey(APP_ENTITIES[j])
       IN CASE m_pc.ph = "refetch" ->
                 Do("refetch", o, {}, Pc(m_pc.i, "metaget", 1), m_remote, {})
            [] m_pc.ph = "metaget" ->
                 Do("metaget", o, {},
                    IF Exists(entity) THEN Pc(m_pc.i, "addcomp", j) ELSE nextEntity,
                    m_remote, {})
            [] m_pc.ph = "addcomp" ->
                 Do("addcomp", o, {"err", "exc"}, nextEntity,
                    [m_remote EXCEPT !.appComps = @ \cup {entity}], {})
            [] OTHER -> LookupThenCreate(o, {}, Pc(m_pc.i, "refetch", 0))

\* deploy(): the app id is fetched; without it steps 16 and 17 are skipped
DeployAppLookup ==
  /\ Running("deploy_app_lookup")
  /\ \E o \in Outcomes :
       Do("start", o, {},
          IF Exists(AppKey) THEN AfterOp
          ELSE Pc(IndexOf("publish_all", <<"publish", "", "final">>), "start", 0),
          m_remote, {})

\* each view, the form and the flow: looked up, and added when found
AddComponentsToApp ==
  /\ Running("add_components_to_app")
  /\ \E o \in Outcomes :
       IF m_pc.ph = "start"
         THEN Do("start", o, {},
                 IF Exists(Cur.k) THEN Pc(m_pc.i, "add", 0) ELSE AfterOp, m_remote, {})
         ELSE Do("add", o, {"err", "exc"}, AfterOp,
                 [m_remote EXCEPT !.appComps = @ \cup {Cur.k}], {})

\* the associated roles are read once; each role is looked up and associated
\* unless it is missing or was associated already
AssociateRolesToApp ==
  /\ Running("associate_roles_to_app")
  /\ \E o \in Outcomes :
       LET j == m_pc.j
           nextRole == IF j < Len(APP_ROLE_NAMES) THEN Pc(m_pc.i, "rolelookup", j + 1) ELSE AfterOp
           role == RoleKey(APP_ROLE_NAMES[j])
       IN CASE m_pc.ph = "start" ->
                 Do("start", o, {}, Pc(m_pc.i, "rolelookup", 1), m_remote, {})
            [] m_pc.ph = "rolelookup" ->
                 Do("rolelookup", o, {},
                    IF Exists(role) /\ role \notin m_existing
                      THEN Pc(m_pc.i, "assoc", j) ELSE nextRole,
                    m_remote, {})
            [] m_pc.ph = "assoc" ->
                 Do("assoc", o, {"err", "exc"}, nextRole,
                    [m_remote EXCEPT !.appRoles = @ \cup {role}], {})

\* a verification that creates what it does not find
VerifyDeployment_Repairs ==
  /\ Running("verify_deployment")
  /\ \E o \in Outcomes :
       Do(m_pc.ph, o, {}, AfterOp, IF Exists(Cur.k) THEN m_remote ELSE Created(Cur.k), {})

\* one lookup per table, role (and its privilege count), app, variable, view
VerifyDeployment ==
  /\ Running("verify_deployment")
  /\ \E o \in Outcomes :
       IF m_pc.ph = "start"
         THEN Do("start", o, {},
                 IF Cur.k[1] = "role" /\ Exists(Cur.k) THEN Pc(m_pc.i, "privcount", 0) ELSE AfterOp,
                 m_remote, {})
         ELSE Do("privcount", o, {}, AfterOp, m_remote, {})

\* the platform builds the index of the alternate key
KeyActivates ==
  /\ Running("wait_for_alternate_key")
  /\ m_remote.keyStatus = "Pending"
  /\ \E s \in {"Active", "Failed"} : m_remote' = [m_remote EXCEPT !.keyStatus = s]
  /\ UNCHANGED <<m_pc, m_run, m_faults, m_existing, m_log>>

\* the platform adds the privilege records of a published table; the
\* deployment sees them only while it waits for them or builds a role
PrivilegesPropagate ==
  /\ Running("wait_for_privileges") \/ Running("create_security_role")
  /\ \E k \in m_remote.published \ m_remote.privReady :
       m_remote' = [m_remote EXCEPT !.privReady = @ \cup {k}]
  /\ UNCHANGED <<m_pc, m_run, m_faults, m_existing, m_log>>

(***************************************************************************)
(* environment-lifecycle-management/scripts: deploy.py with its five       *)
(* phases and register_service_principal.py, against one environment.      *)
(* The lists keep the order of the scripts and are cut to their first      *)
(* entries.  elm_client.py raises on every non-success status.             *)
(***************************************************************************)
ER == "fsi_environmentrequest"
PL == "fsi_provisioninglog"

OPTIONSETS == << <<"optionset", "", "fsi_er_state">>, <<"optionset", "", "fsi_pl_action">> >>

ELM_TABLES == <<TableKey(ER), TableKey(PL)>>

\* ENVIRONMENT_REQUEST_COLUMNS, then PROVISIONING_LOG_COLUMNS
ELM_COLUMNS ==
  << <<"column", ER, "fsi_state">>, <<"column", ER, "fsi_approver">>,
     <<"column", PL, "fsi_sequence">> >>

ROLES == <<"ELM Approver", "ELM Admin">>

\* role_def["privileges"] as <<operation, entity>>
ElmRolePrivileges(r) ==
  CASE r = "ELM Approver" -> << <<"Read", ER>>, <<"Read", PL>> >>
    [] r = "ELM Admin" -> << <<"Create", ER>>, <<"Create", PL>> >>

BUSINESS_RULES == << <<"rule", ER, "ELM Zone Rationale Required">> >>

\* VIEWS, then PROVISIONING_LOG_VIEWS
ELM_VIEWS == << <<"view", ER, "My Requests">>, <<"view", PL, "All Provisioning Logs">> >>

APPROVER_FIELD_PERMISSIONS == <<"fsi_state", "fsi_approver">>

ProfileKey == <<"profile", "", "ELM Approver Fields">>
PermissionKey(field) == <<"perm", "ELM Approver Fields", field>>
AppRegistrationKey == <<"appreg", "", "ELM-Provisioning-ServicePrincipal">>
Setup(what) == <<"setup", "", what>>

\* a schema phase that creates the tables before the option sets
SchemaOps_TablesFirst ==
  OpsOver("create_tables", ELM_TABLES)
  \o OpsOver("create_optionsets", OPTIONSETS)
  \o OpsOver("create_columns", ELM_COLUMNS)

\* deploy(): the calls of create_schema
SchemaOps ==
  OpsOver("create_optionsets", OPTIONSETS)
  \o OpsOver("create_tables", ELM_TABLES)
  \o OpsOver("create_columns", ELM_COLUMNS)

\* deploy(): the calls of create_roles
RoleOps ==
  << Op("create_roles", Setup("roles")) >>
  \o [i \in 1..Len(ROLES) |-> Op("create_roles", RoleKey(ROLES[i]))]
  \o << Op("create_roles", Setup("immutability")) >>

\* create_field_security(): the validation, the profile, the permissions
FieldSecurityOps ==
  << Op("create_field_security", Setup("fields")),
     Op("create_field_security", ProfileKey) >>
  \o [i \in 1..Len(APPROVER_FIELD_PERMISSIONS) |->
        Op("create_field_security", PermissionKey(APPROVER_FIELD_PERMISSIONS[i]))]

\* the calls of one run: deploy() in one of its three modes, main() of
\* register_service_principal.py without or with --rotate-secret (main()
\* parses the flag and never reads args.rotate_secret), or main() of
\* create_field_security.py
ElmProgram(mode) ==
  CASE mode = "roles_only" -> << Op("test_connection", NoKey) >> \o RoleOps
    [] mode = "tables_only" -> << Op("test_connection", NoKey) >> \o SchemaOps
    [] mode = "field_security" -> FieldSecurityOps
    [] mode \in {"register", "register_rotate"} ->
         << Op("get_token", NoKey),
            Op("create_app_registration", AppRegistrationKey),
            Op("create_client_secret", NoKey),
            Op("store_in_keyvault", NoKey) >>
    [] OTHER ->
         << Op("test_connection", NoKey) >> \o SchemaOps \o RoleOps
         \o OpsOver("create_business_rules", BUSINESS_RULES)
         \o << Op("create_views", Setup("views")) >>
         \o OpsOver("create_views", ELM_VIEWS)
         \o FieldSecurityOps

ElmModes == {"full", "tables_only", "roles_only", "register", "register_rotate", "field_security"}

ElmResourceKeys ==
  {OPTIONSETS[i] : i \in 1..Len(OPTIONSETS)}
  \cup {ELM_TABLES[i] : i \in 1..Len(ELM_TABLES)}
  \cup {ELM_COLUMNS[i] : i \in 1..Len(ELM_COLUMNS)}
  \cup {RoleKey(ROLES[i]) : i \in 1..Len(ROLES)}
  \cup {BUSINESS_RULES[i] : i \in 1..Len(BUSINESS_RULES)}
  \cup {ELM_VIEWS[i] : i \in 1..Len(ELM_VIEWS)}
  \cup {PermissionKey(APPROVER_FIELD_PERMISSIONS[i]) : i \in 1..Len(APPROVER_FIELD_PERMISSIONS)}
  \cup {ProfileKey, AppRegistrationKey}

ElmProg == ElmProgram(e_mode)

ElmCur == ElmProg[e_pc.i]

ElmRunning(method) == e_pc.i > 0 /\ ElmCur.m = method

ElmAfterOp == IF e_pc.i = Len(ElmProg) THEN Stopped("done") ELSE Pc(e_pc.i + 1, "start", 0)

\* the statement after the last call of the current function
ElmAfterFunction ==
  LET later == {i \in (e_pc.i + 1)..Len(ElmProg) : ElmProg[i].m # ElmCur.m}
  IN IF later = {} THEN Stopped("done")
     ELSE Pc(CHOOSE i \in later : \A k \in later : i <= k, "start", 0)

\* the answer to a request: success, or a non-success status (an exception)
ElmOutcomes == IF e_faults < MaxFaults THEN {"ok", "err"} ELSE {"ok"}

ElmExists(k) == e_remote.res[k] > 0

ElmCreated(k) == [e_remote EXCEPT !.res[k] = @ + 1]

\* a dry run that would go on to create
DryRun_Ignored == FALSE

\* dry_run of deploy(), args.dry_run of register_service_principal.py
DryRun == e_dry

ElmLogged(ph, o, more) ==
  [e_log EXCEPT
     !.issued = @ \cup {<<"req", ElmCur.m, ph, ElmCur.k>>}
                  \cup (IF o = "ok" THEN more ELSE {})
                  \cup (IF o = "err" THEN {<<"error", ElmCur.m, ph, ElmCur.k>>} ELSE {}),
     !.lastFail = IF o = "ok" THEN @ ELSE <<ElmCur.m, ph, o>>,
     !.cont = IF o = "ok" THEN (@ \/ e_log.lastFail # <<>>) ELSE FALSE]

\* one request at phase ph answered with o: a failure listed in soft is caught
\* and printed where it happens, any other failure leaves deploy() or main()
\* through its except clause
ElmDo(ph, o, soft, pcOk, remoteOk, more) ==
  LET aborts == o # "ok" /\ o \notin soft
      pcNext == IF aborts THEN Stopped("aborted") ELSE pcOk
  IN /\ e_faults' = IF o = "err" THEN e_faults + 1 ELSE e_faults
     /\ e_pc' = pcNext
     /\ e_remote' = IF o = "ok" THEN remoteOk ELSE e_remote
     /\ e_log' = ElmLogged(ph, o, more)
     /\ e_privmap' = IF pcNext.i = 0 THEN {}
                     ELSE IF ElmCur.k = Setup("roles") /\ ph = "privileges" /\ o = "ok"
                            THEN e_remote.privReady
                            ELSE e_privmap
     /\ UNCHANGED <<e_run, e_dry, e_mode>>

\* a statement that issues no request
ElmSkip(pcNext) ==
  /\ e_pc' = pcNext
  /\ e_privmap' = IF pcNext.i = 0 THEN {} ELSE e_privmap
  /\ UNCHANGED <<e_run, e_faults, e_dry, e_mode, e_remote, e_log>>

\* the lookup by natural key; "already exists" and "would create" go on to the
\* next item, otherwise the create call follows
ElmLookupThenCreate(o, soft) ==
  IF e_pc.ph = "start"
    THEN ElmDo("start", o, {},
               IF ElmExists(ElmCur.k) \/ DryRun THEN ElmAfterOp ELSE Pc(e_pc.i, "create", 0),
               e_remote,
               IF ElmExists(ElmCur.k) THEN {} ELSE {<<"miss", ElmCur.m, "start", ElmCur.k>>})
    ELSE ElmDo("create", o, soft, ElmAfterOp, ElmCreated(ElmCur.k), {})

ElmIdle ==
  /\ e_pc = Stopped("idle")
  /\ e_run = 0
  /\ e_faults = 0
  /\ e_dry = FALSE
  /\ e_mode = "full"
  /\ e_privmap = {}
  /\ e_remote = [res |-> [k \in ElmResourceKeys |-> 0], rolePrivs |-> {}, privReady |-> {},
                 secrets |-> 0, vault |-> 0]
  /\ e_log = [issued |-> {}, lastFail |-> <<>>, cont |-> FALSE, snap |-> <<>>]

\* main() of deploy.py or of register_service_principal.py is started, with
\* or without --dry-run
ElmStartRun ==
  /\ e_pc.i = 0
  /\ e_run < MaxRuns
  /\ \E dry \in BOOLEAN, mode \in ElmModes :
       /\ e_dry' = dry
       /\ e_mode' = mode
  /\ e_run' = e_run + 1
  /\ e_pc' = Pc(1, "start", 0)
  /\ e_log' = [issued |-> {}, lastFail |-> <<>>, cont |-> FALSE, snap |-> e_remote]
  /\ UNCHANGED <<e_faults, e_privmap, e_remote>>

TestConnection ==
  /\ ElmRunning("test_connection")
  /\ \E o \in ElmOutcomes : ElmDo("start", o, {}, ElmAfterOp, e_remote, {})

CreateOptionsets ==
  /\ ElmRunning("create_optionsets")
  /\ \E o \in ElmOutcomes : ElmLookupThenCreate(o, {})

CreateTables ==
  /\ ElmRunning("create_tables")
  /\ \E o \in ElmOutcomes : ElmLookupThenCreate(o, {})

CreateColumns ==
  /\ ElmRunning("create_columns")
  /\ \E o \in ElmOutcomes : ElmLookupThenCreate(o, {})

\* forbidden: ELM Admin must hold neither privilege on the provisioning log
FORBIDDEN == {<<"Write", PL>>, <<"Delete", PL>>}

\* all_good: none of the forbidden names is among the privileges read back
ImmutabilityVerdict ==
  IF \E f \in FORBIDDEN : <<"ELM Admin", f>> \in e_remote.rolePrivs THEN "FAILED" ELSE "PASSED"

\* the root business unit and the privilege map are read; each role is looked
\* up and created when missing, and each privilege of its definition found in
\* the map is assigned, to a role that existed as to a new one; then the
\* privileges of ELM Admin are read back
CreateRoles ==
  /\ ElmRunning("create_roles")
  /\ LET k == ElmCur.k
         j == e_pc.j
         privs == ElmRolePrivileges(k[3])
         nextPriv == IF j < Len(privs) THEN Pc(e_pc.i, "priv", j + 1) ELSE ElmAfterOp
     IN CASE k = Setup("roles") ->
               \E o \in ElmOutcomes :
                 IF e_pc.ph = "start"
                   THEN ElmDo("start", o, {}, Pc(e_pc.i, "privileges", 0), e_remote, {})
                   ELSE ElmDo("privileges", o, {}, ElmAfterOp, e_remote, {})
          [] k = Setup("immutability") ->
               \E o \in ElmOutcomes :
                 IF e_pc.ph = "start"
                   THEN ElmDo("start", o, {},
                              IF ElmExists(RoleKey("ELM Admin")) /\ ~DryRun
                                THEN Pc(e_pc.i, "privs", 0) ELSE ElmAfterOp,
                              e_remote, {})
                   ELSE ElmDo("privs", o, {}, ElmAfterOp, e_remote,
                              {<<"immutability", "create_roles", ImmutabilityVerdict, k>>})
          [] e_pc.ph = "start" ->
               \E o \in ElmOutcomes :
                 ElmDo("start", o, {},
                       IF ElmExists(k) \/ DryRun
                         THEN Pc(e_pc.i, "priv", 1) ELSE Pc(e_pc.i, "create", 0),
                       e_remote,
                       IF ElmExists(k) THEN {} ELSE {<<"miss", "create_roles", "start", k>>})
          [] e_pc.ph = "create" ->
               \E o \in ElmOutcomes :
                 ElmDo("create", o, {}, Pc(e_pc.i, "priv", 1), ElmCreated(k), {})
          [] OTHER ->
               IF TableKey(privs[j][2]) \notin e_privmap \/ DryRun \/ ~ElmExists(k)
                 THEN ElmSkip(nextPriv)
                 ELSE \E o \in ElmOutcomes :
                        ElmDo("priv", o, {"err"}, nextPriv,
                              [e_remote EXCEPT !.rolePrivs = @ \cup {<<k[3], privs[j]>>}], {})

\* create_workflow sits in a try/except that prints the error
CreateBusinessRules ==
  /\ ElmRunning("create_business_rules")
  /\ \E o \in ElmOutcomes : ElmLookupThenCreate(o, {"err"})

\* both tables are looked up; without the request table the function returns,
\* without the log table its views are left out; create_saved_query sits in a
\* try/except that prints the error
CreateViews ==
  /\ ElmRunning("create_views")
  /\ IF ElmCur.k = Setup("views")
       THEN \E o \in ElmOutcomes :
              IF e_pc.ph = "start"
                THEN ElmDo("start", o, {}, Pc(e_pc.i, "pl", 0), e_remote, {})
                ELSE ElmDo("pl", o, {},
                           IF ElmExists(TableKey(ER)) THEN ElmAfterOp ELSE ElmAfterFunction,
                           e_remote,
                           IF ElmExists(TableKey(ER)) THEN {}
                           ELSE {<<"error", "create_views", "pl", ElmCur.k>>})
       ELSE IF ElmCur.k[2] = PL /\ ~ElmExists(TableKey(PL))
              THEN ElmSkip(ElmAfterOp)
              ELSE \E o \in ElmOutcomes : ElmLookupThenCreate(o, {"err"})

\* create_field_security going on whatever the validation found
CreateFieldSecurity_Unvalidated ==
  /\ ElmRunning("create_field_security")
  /\ LET k == ElmCur.k
         j == e_pc.j
         n == Len(APPROVER_FIELD_PERMISSIONS)
         allFields == \A i \in 1..n : ElmExists(<<"column", ER, APPROVER_FIELD_PERMISSIONS[i]>>)
     IN CASE k = Setup("fields") ->
               \E o \in ElmOutcomes :
                 IF e_pc.ph = "start"
                   THEN ElmDo("start", o, {},
                              IF ElmExists(TableKey(ER))
                                THEN Pc(e_pc.i, "validate", 1) ELSE ElmAfterFunction,
                              e_remote,
                              IF ElmExists(TableKey(ER)) THEN {}
                              ELSE {<<"error", "create_field_security", "start", k>>})
                   ELSE ElmDo("validate", o, {},
                              IF j < n THEN Pc(e_pc.i, "validate", j + 1)
                              ELSE ElmAfterOp,
                              e_remote,
                              IF j < n \/ allFields THEN {}
                              ELSE {<<"error", "create_field_security", "validate", k>>})
          [] k = ProfileKey -> \E o \in ElmOutcomes : ElmLookupThenCreate(o, {})
          [] OTHER ->
               IF DryRun \/ ~ElmExists(ProfileKey)
                 THEN ElmSkip(ElmAfterOp)
                 ELSE \E o \in ElmOutcomes \cup (IF ElmExists(k) THEN {"dup"} ELSE {}) :
                        ElmDo("create", o, {"err", "dup"}, ElmAfterOp, ElmCreated(k), {})

\* the table and every field are looked up (return False when one is
\* missing); the profile is looked up and created when missing; then a field
\* permission is created for every field, with no lookup: the platform
\* answers a permission that exists with a second record or with an error
CreateFieldSecurity ==
  /\ ElmRunning("create_field_security")
  /\ LET k == ElmCur.k
         j == e_pc.j
         n == Len(APPROVER_FIELD_PERMISSIONS)
         allFields == \A i \in 1..n : ElmExists(<<"column", ER, APPROVER_FIELD_PERMISSIONS[i]>>)
     IN CASE k = Setup("fields") ->
               \E o \in ElmOutcomes :
                 IF e_pc.ph = "start"
                   THEN ElmDo("start", o, {},
                              IF ElmExists(TableKey(ER))
                                THEN Pc(e_pc.i, "validate", 1) ELSE ElmAfterFunction,
                              e_remote,
                              IF ElmExists(TableKey(ER)) THEN {}
                              ELSE {<<"error", "create_field_security", "start", k>>})
                   ELSE ElmDo("validate", o, {},
                              IF j < n THEN Pc(e_pc.i, "validate", j + 1)
                              ELSE IF allFields THEN ElmAfterOp ELSE ElmAfterFunction,
                              e_remote,
                              IF j < n \/ allFields THEN {}
                              ELSE {<<"error", "create_field_security", "validate", k>>})
          [] k = ProfileKey -> \E o \in ElmOutcomes : ElmLookupThenCreate(o, {})
          [] OTHER ->
               IF DryRun \/ ~ElmExists(ProfileKey)
                 THEN ElmSkip(ElmAfterOp)
                 ELSE \E o \in ElmOutcomes \cup (IF ElmExists(k) THEN {"dup"} ELSE {}) :
                        ElmDo("create", o, {"err", "dup"}, ElmAfterOp, ElmCreated(k), {})

\* main(): credential.get_token
GetToken ==
  /\ ElmRunning("get_token")
  /\ \E o \in ElmOutcomes : ElmDo("start", o, {}, ElmAfterOp, e_remote, {})

\* the application is searched by display name; found, or in a dry run, the
\* function returns, otherwise it POSTs the application
CreateAppRegistration ==
  /\ ElmRunning("create_app_registration")
  /\ \E o \in ElmOutcomes : ElmLookupThenCreate(o, {})

CreateClientSecret ==
  /\ ElmRunning("create_client_secret")
  /\ IF DryRun
       THEN ElmSkip(ElmAfterOp)
       ELSE \E o \in ElmOutcomes :
              ElmDo("create", o, {}, ElmAfterOp, [e_remote EXCEPT !.secrets = @ + 1], {})

StoreInKeyVault ==
  /\ ElmRunning("store_in_keyvault")
  /\ IF DryRun
       THEN ElmSkip(ElmAfterOp)
       ELSE \E o \in ElmOutcomes :
              ElmDo("create", o, {}, ElmAfterOp, [e_remote EXCEPT !.vault = @ + 1], {})

\* the platform adds the privilege records of a table that exists; the
\* deployment sees them when it loads the privilege map
ElmPrivilegesPropagate ==
  /\ ElmRunning("create_roles")
  /\ ElmCur.k = Setup("roles")
  /\ \E i \in 1..Len(ELM_TABLES) :
       /\ ElmExists(ELM_TABLES[i])
       /\ ELM_TABLES[i] \notin e_remote.privReady
       /\ e_remote' = [e_remote EXCEPT !.privReady = @ \cup {ELM_TABLES[i]}]
  /\ UNCHANGED <<e_pc, e_run, e_faults, e_dry, e_mode, e_privmap, e_log>>

(***************************************************************************)
(* The ELM audit scripts: verify_role_privileges.py,                       *)
(* validate_immutability.py and export_quarterly_evidence.py.  Each step  *)
(* is one query and its answer; the environment answers truthfully.        *)
(***************************************************************************)
\* EXPECTED_ROLES, cut to two roles and to four privileges of each; "None"
\* stands for None (must not be granted)
EXPECTED_ROLE_NAMES == <<"ELM Admin", "ELM Auditor">>

EXPECTED_ROLES(role) ==
  IF role = "ELM Admin"
    THEN { <<ER, "AppendTo", "Organization">>, <<PL, "Read", "Organization">>,
           <<PL, "Write", "None">>, <<PL, "Delete", "None">> }
    ELSE { <<ER, "AppendTo", "None">>, <<PL, "Read", "Organization">>,
           <<PL, "Write", "None">>, <<PL, "Delete", "None">> }

\* DEPTH_MAP.get(depth, f"Unknown({depth})")
DEPTH_MAP(depth) ==
  CASE depth = 1 -> "User"
    [] depth = 2 -> "Business Unit"
    [] depth = 4 -> "Parent: Child Business Units"
    [] depth = 8 -> "Organization"
    [] OTHER -> "Unknown"

\* the actions in the order get_role_privileges tries them
PARSED_ACTIONS == <<"Create", "Read", "Write", "Delete", "Append", "AppendTo">>

\* priv_name.startswith(f"prv{action}") for the name prv<held><entity>: the
\* action is the one held, or a proper prefix of it
NameStartsWith(held, action) ==
  \/ action = held
  \/ action = "Append" /\ held = "AppendTo"

\* a parse that reads the privilege name as it was written
ParsedPrivilege_Exact(row) == <<row.entity, row.action, DEPTH_MAP(row.depth)>>

\* get_role_privileges: the entry of priv_map that one row of the answer
\* gives: the first action whose prefix matches, the rest of the name as the
\* entity, the depth through DEPTH_MAP
ParsedPrivilege(row) ==
  LET i == CHOOSE i \in 1..Len(PARSED_ACTIONS) :
             /\ NameStartsWith(row.action, PARSED_ACTIONS[i])
             /\ \A j \in 1..(i - 1) : ~NameStartsWith(row.action, PARSED_ACTIONS[j])
      action == PARSED_ACTIONS[i]
  IN <<(IF action = row.action THEN row.entity ELSE "To" \o row.entity), action,
       DEPTH_MAP(row.depth)>>

\* a comparison that finds nothing
verify_role_Lenient(actual, expected) == {}

\* verify_role: the issues for a role that was found; actual is the set of
\* priv_map entries <<entity, privilege, depth>>
verify_role(actual, expected) ==
  LET Depth(entity, priv) ==
        IF \E a \in actual : a[1] = entity /\ a[2] = priv
          THEN (CHOOSE a \in actual : a[1] = entity /\ a[2] = priv)[3]
          ELSE "None"
  IN { <<e[1], e[2], "should NOT be granted">> :
         e \in {x \in expected : x[3] = "None" /\ Depth(x[1], x[2]) # "None"} }
     \cup { <<e[1], e[2], "not granted">> :
              e \in {x \in expected : x[3] # "None" /\ Depth(x[1], x[2]) = "None"} }
     \cup { <<e[1], e[2], "other depth">> :
              e \in {x \in expected : x[3] # "None" /\ Depth(x[1], x[2]) \notin {"None", x[3]}} }

\* a dump that writes null for every list
json_dumps_Null(records) == <<"null">>

\* json.dumps(records, indent=2, default=str): the records in the order of
\* the list, the fields of a record in the order of the dict, every item on
\* a line of its own; an empty list is "[]"
json_dumps(records) ==
  LET RECURSIVE Fields(_, _)
      Fields(rec, i) ==
        IF i > Len(rec) THEN <<>>
        ELSE (IF i > 1 THEN <<",">> ELSE <<>>)
             \o <<rec[i][1], ":", rec[i][2]>> \o Fields(rec, i + 1)
      RECURSIVE Items(_)
      Items(i) ==
        IF i > Len(records) THEN <<>>
        ELSE (IF i > 1 THEN <<",">> ELSE <<>>)
             \o <<"\n", "{">> \o Fields(records[i], 1) \o <<"}">> \o Items(i + 1)
  IN <<"[">> \o Items(1) \o (IF records = <<>> THEN <<>> ELSE <<"\n">>) \o <<"]">>

\* hashlib.sha256(content.encode("utf-8")).hexdigest(): equal digests for
\* equal contents only
calculate_sha256(content) == <<"sha256">> \o content

\* os.linesep of the machine that runs the export
LineSeparators == {"\n", "\r\n"}

\* Path.write_text(content): the file is opened in text mode, every "\n" of
\* the text is written as os.linesep
write_text_Lossy(content) == <<>>

write_text(content) ==
  [i \in 1..Len(content) |-> IF content[i] = "\n" THEN a_env.linesep ELSE content[i]]

\* Path.read_text(): universal newlines, "\r\n" is read as "\n"
read_text(bytes) ==
  [i \in 1..Len(bytes) |-> IF bytes[i] = "\r\n" THEN "\n" ELSE bytes[i]]

\* json.dumps(manifest, indent=2): the file entries, and the manifestHash
\* member once it has been added to the dict
manifest_dumps(entries, manifestHash) ==
  LET Entry(e) ==
        <<"{", "\n", "table", ":", e.table, ",", "\n",
          "recordCount", ":", ToString(e.recordCount), ",", "\n", "sha256", ":">>
        \o e.sha256
        \o <<",", "\n", "isEmpty", ":", IF e.isEmpty THEN "true" ELSE "false", "\n", "}">>
      RECURSIVE Files(_)
      Files(i) ==
        IF i > Len(entries) THEN <<>>
        ELSE (IF i > 1 THEN <<",">> ELSE <<>>) \o <<"\n">> \o Entry(entries[i]) \o Files(i + 1)
  IN <<"{", "\n", "files", ":", "[">> \o Files(1) \o <<"\n", "]">>
     \o (IF manifestHash = <<>> THEN <<>>
         ELSE <<",", "\n", "manifestHash", ":">> \o manifestHash)
     \o <<"\n", "}">>

\* the records of the two exported tables that the range may hold, and the
\* answers the query can give for a set of them: any order of the records
\* (the order attribute is equal), the fields of the first in either order
EXPORT_TABLES == <<ER, PL>>

TableRecords(table) == IF table = ER THEN {"req-1", "req-2"} ELSE {"log-1"}

Renderings(id) ==
  IF id = "req-1"
    THEN { << <<"id", id>>, <<"fsi_state", "Approved">> >>,
           << <<"fsi_state", "Approved">>, <<"id", id>> >> }
    ELSE { << <<"id", id>>, <<"fsi_state", "Pending">> >> }

Answers(ids) ==
  { resp \in UNION {[1..n -> UNION {Renderings(id) : id \in ids}] : n \in {Cardinality(ids)}} :
      \A id \in ids : \E i \in 1..Len(resp) : \E f \in 1..2 : resp[i][f] = <<"id", id>> }

AUDIT_SCRIPTS == {"verify_role_privileges", "validate_immutability", "export_quarterly_evidence"}

\* the five queries of validate_immutability, in its order
AUDIT_QUERIES == <<"logs", "updates", "deletes", "incomplete", "orphaned">>

\* the privileges a role may be found to hold
HeldRows ==
  { [action |-> "Read", entity |-> PL, depth |-> 8],
    [action |-> "Read", entity |-> PL, depth |-> 2],
    [action |-> "Write", entity |-> PL, depth |-> 8],
    [action |-> "Delete", entity |-> PL, depth |-> 1],
    [action |-> "AppendTo", entity |-> ER, depth |-> 8] }

NoAuditEnv ==
  [roles |-> [r \in {"ELM Admin", "ELM Auditor"} |-> [exists |-> FALSE, rows |-> {}]],
   audit |-> [q \in {"logs", "updates", "deletes", "incomplete", "orphaned"} |-> 0],
   records |-> [t \in {ER, PL} |-> {}],
   linesep |-> "\n"]

\* the environments a script may be run against
AuditEnvs(script) ==
  CASE script = "verify_role_privileges" ->
         { [NoAuditEnv EXCEPT !.roles = roles] :
             roles \in { f \in [{"ELM Admin", "ELM Auditor"} ->
                                  [exists : BOOLEAN, rows : SUBSET HeldRows]] :
                           \A r \in DOMAIN f :
                             /\ ~f[r].exists => f[r].rows = {}
                             /\ \A x, y \in f[r].rows :
                                  (x.action = y.action /\ x.entity = y.entity) => x = y } }
    [] script = "validate_immutability" ->
         { [NoAuditEnv EXCEPT !.audit = audit] :
             audit \in [{"logs", "updates", "deletes", "incomplete", "orphaned"} -> {0, 1}] }
    [] OTHER ->
         { [NoAuditEnv EXCEPT !.records = records, !.linesep = linesep] :
             linesep \in LineSeparators,
             records \in { f \in [{ER, PL} -> SUBSET {"req-1", "req-2", "log-1"}] :
                             \A t \in DOMAIN f : f[t] \subseteq TableRecords(t) } }

NoAcc(prev) ==
  [requests |-> <<>>, roles |-> <<>>, counts |-> <<>>, received |-> <<>>, files |-> {},
   manifest |-> <<>>, manifestHash |-> <<>>, prev |-> prev]

AuditIdle ==
  /\ a_script = "none"
  /\ a_pc = Stopped("idle")
  /\ a_run = 0
  /\ a_env = NoAuditEnv
  /\ a_acc = NoAcc(<<>>)
  /\ a_exit = -1

\* main() of one of the scripts is started against an environment; the
\* script may be run again against the same environment
AuditStart ==
  /\ a_pc.i = 0
  /\ a_run < MaxRuns
  /\ \E script \in AUDIT_SCRIPTS :
       /\ a_script \in {"none", script}
       /\ a_script' = script
       /\ IF a_run = 0 THEN \E env \in AuditEnvs(script) : a_env' = env
                       ELSE a_env' = a_env
       /\ a_pc' = Pc(1, IF script = "verify_role_privileges" THEN "roles" ELSE "query", 0)
  /\ a_run' = a_run + 1
  /\ a_acc' = NoAcc(IF a_acc.manifest = <<>> THEN <<>>
                    ELSE <<[received |-> a_acc.received, manifest |-> a_acc.manifest]>>)
  /\ a_exit' = -1

\* sys.exit(0 if all_passed else 3); validate_immutability's three branches
AuditExitCode_Zero(findings) == 0

AuditExitCode(findings) == IF findings THEN 3 ELSE 0

\* an except clause that prints the error and exits with 0
AuditRaises_ExitZero(what) ==
  /\ a_acc' = [a_acc EXCEPT !.requests = Append(@, <<"GET", what, "raised">>)]
  /\ a_pc' = Stopped("aborted")
  /\ a_exit' = 0
  /\ UNCHANGED <<a_script, a_run, a_env>>

\* a query raises (token or HTTP status): the except clause exits with 1
AuditRaises(what) ==
  /\ a_acc' = [a_acc EXCEPT !.requests = Append(@, <<"GET", what, "raised">>)]
  /\ a_pc' = Stopped("aborted")
  /\ a_exit' = 1
  /\ UNCHANGED <<a_script, a_run, a_env>>

\* verify_role_privileges.py: for every expected role the role is queried,
\* its privileges are fetched and parsed, verify_role compares them with the
\* expectation; the exit code is 0 when every role passed and 3 otherwise
VerifyRolePrivileges ==
  /\ a_script = "verify_role_privileges"
  /\ a_pc.i > 0
  /\ LET role == EXPECTED_ROLE_NAMES[a_pc.i]
         remote == a_env.roles[role]
         actual == {ParsedPrivilege(row) : row \in remote.rows}
         issues == IF remote.exists THEN verify_role(actual, EXPECTED_ROLES(role))
                   ELSE {<<"", "", "not found">>}
         what == IF a_pc.ph = "roles" THEN "roles" ELSE "roleprivilegescollection"
         asked == [a_acc EXCEPT !.requests = Append(@, <<"GET", what, "ok">>)]
         done == [asked EXCEPT !.roles = Append(@, [name |-> role, passed |-> issues = {},
                                                    issues |-> issues])]
     IN \/ AuditRaises(what)
        \/ /\ a_pc.ph = "roles"
           /\ remote.exists
           /\ a_pc' = Pc(a_pc.i, "privs", 0)
           /\ a_acc' = asked
           /\ UNCHANGED <<a_script, a_run, a_env, a_exit>>
        \/ /\ a_pc.ph = "privs" \/ ~remote.exists
           /\ a_acc' = done
           /\ IF a_pc.i < Len(EXPECTED_ROLE_NAMES)
                THEN a_pc' = Pc(a_pc.i + 1, "roles", 0) /\ a_exit' = a_exit
                ELSE /\ a_pc' = Stopped("done")
                     /\ a_exit' = AuditExitCode(\E i \in 1..Len(done.roles) : ~done.roles[i].passed)
           /\ UNCHANGED <<a_script, a_run, a_env>>

\* validate_immutability.py: the records, the update and delete audit
\* entries, the incomplete and the orphaned records of the range are queried;
\* 3 for a violation or an integrity issue, 0 otherwise
ValidateImmutability ==
  /\ a_script = "validate_immutability"
  /\ a_pc.i > 0
  /\ LET q == AUDIT_QUERIES[a_pc.i]
         what == IF q \in {"updates", "deletes"} THEN "audits" ELSE "fsi_provisioninglogs"
         done == [a_acc EXCEPT !.requests = Append(@, <<"GET", what, "ok">>),
                               !.counts = Append(@, a_env.audit[q])]
     IN \/ AuditRaises(what)
        \/ /\ a_acc' = done
           /\ IF a_pc.i < Len(AUDIT_QUERIES)
                THEN a_pc' = Pc(a_pc.i + 1, "query", 0) /\ a_exit' = a_exit
                ELSE /\ a_pc' = Stopped("done")
                     /\ a_exit' = AuditExitCode(\/ done.counts[2] > 0 \/ done.counts[3] > 0
                                                \/ done.counts[4] + done.counts[5] > 0)
           /\ UNCHANGED <<a_script, a_run, a_env>>

\* export_quarterly_evidence.py: each table is fetched, dumped, hashed and
\* written with its manifest entry; then the manifest is dumped and hashed,
\* the hash is added to it, it is dumped again and written as manifest.json,
\* and the script exits with 0
ExportQuarterlyEvidence ==
  /\ a_script = "export_quarterly_evidence"
  /\ a_pc.i > 0
  /\ IF a_pc.i <= Len(EXPORT_TABLES)
       THEN LET table == EXPORT_TABLES[a_pc.i]
            IN \/ AuditRaises(table)
               \/ /\ \E records \in Answers(a_env.records[table]) :
                       LET content == json_dumps(records)
                       IN a_acc' = [a_acc EXCEPT
                            !.requests = Append(@, <<"GET", table, "ok">>),
                            !.received = Append(@, records),
                            !.files = @ \cup {<<table, write_text(content)>>},
                            !.manifest = Append(@, [table |-> table,
                                                    recordCount |-> Len(records),
                                                    sha256 |-> calculate_sha256(content),
                                                    isEmpty |-> Len(records) = 0])]
                  /\ a_pc' = Pc(a_pc.i + 1, "query", 0)
                  /\ UNCHANGED <<a_script, a_run, a_env, a_exit>>
       ELSE /\ LET manifest_hash == calculate_sha256(manifest_dumps(a_acc.manifest, <<>>))
               IN a_acc' = [a_acc EXCEPT
                    !.manifestHash = manifest_hash,
                    !.files = @ \cup {<<"manifest.json",
                                        write_text(manifest_dumps(a_acc.manifest, manifest_hash))>>}]
            /\ a_pc' = Stopped("done")
            /\ a_exit' = 0
            /\ UNCHANGED <<a_script, a_run, a_env>>

(***************************************************************************)
(* elm_client.py: the methods of ELMClient that send a request themselves  *)
(* (the others call query or create), and main() with --test-connection.   *)
(***************************************************************************)
\* method, verb, whether a 404 is answered with None
ELM_CLIENT_METHODS ==
  { <<"test_connection", "GET", FALSE>>, <<"query", "GET", FALSE>>,
    <<"query_fetchxml", "GET", FALSE>>, <<"create", "POST", FALSE>>,
    <<"update", "PATCH", FALSE>>, <<"get", "GET", FALSE>>,
    <<"get_entity_metadata", "GET", TRUE>>, <<"create_entity", "POST", FALSE>>,
    <<"create_attribute", "POST", FALSE>>, <<"get_attribute_metadata", "GET", TRUE>>,
    <<"create_global_optionset", "POST", FALSE>>, <<"get_global_optionset", "GET", TRUE>>,
    <<"add_role_privilege", "POST", FALSE>> }

\* what the endpoint may answer: a status, or no answer at all
ClientAnswers == {200, 404, 429, 500, 0}

MaxCalls == 2

ClientIdle ==
  /\ c_pc = "idle"
  /\ c_calls = 0
  /\ c_main = FALSE
  /\ c_method = <<>>
  /\ c_responses = <<>>
  /\ c_result = "none"
  /\ c_exit = -1

\* a method is called, by a script or by main() for --test-connection
ClientCall ==
  /\ c_pc \in {"idle", "returned", "raised"}
  /\ c_calls < MaxCalls
  /\ c_exit = -1
  /\ \E method \in ELM_CLIENT_METHODS, main \in BOOLEAN :
       /\ main => method[1] = "test_connection"
       /\ c_method' = method
       /\ c_main' = main
  /\ c_pc' = "headers"
  /\ c_calls' = c_calls + 1
  /\ c_responses' = <<>>
  /\ c_result' = "none"
  /\ UNCHANGED c_exit

\* main(): sys.exit of the three except clauses
ClientExitCode(result) ==
  CASE result = "HTTPError" -> 2
    [] result = "RuntimeError" -> 1
    [] result \in {"None", "value"} -> 0
    [] OTHER -> 4

\* _get_headers: _get_token raises RuntimeError without an access token
ClientGetHeaders ==
  /\ c_pc = "headers"
  /\ \E token \in BOOLEAN :
       IF token
         THEN c_pc' = "send" /\ UNCHANGED <<c_result, c_exit>>
         ELSE /\ c_pc' = "raised"
              /\ c_result' = "RuntimeError"
              /\ c_exit' = IF c_main THEN ClientExitCode("RuntimeError") ELSE c_exit
  /\ UNCHANGED <<c_calls, c_main, c_method, c_responses>>

\* the result of a method for the answer to its one request:
\* raise_for_status, after the 404 test of the metadata lookups
ClientResult(method, status) ==
  CASE status = 0 -> "ConnectionError"
    [] status = 404 /\ method[3] -> "None"
    [] status >= 400 -> "HTTPError"
    [] OTHER -> "value"

\* requests.get / post / patch, once, and the method returns or raises
ClientSend ==
  /\ c_pc = "send"
  /\ \E status \in ClientAnswers :
       LET result == ClientResult(c_method, status)
       IN /\ c_responses' = Append(c_responses, status)
          /\ c_result' = result
          /\ c_pc' = IF result \in {"None", "value"} THEN "returned" ELSE "raised"
          /\ c_exit' = IF c_main THEN ClientExitCode(result) ELSE c_exit
  /\ UNCHANGED <<c_calls, c_main, c_method>>

(***************************************************************************)
(* The role definitions of the two deployments in full, as the pairs       *)
(* <<privilege, entity>> of prv<privilege><entity>                         *)
(***************************************************************************)
\* ROLE_DEFINITIONS of deploy_mcg.py, by role name
MCG_ROLE_PRIVILEGES(role) ==
  CASE role = "MC Admin" ->
         { <<"Create", "mcg_messagecenterpost">>,
           <<"Read", "mcg_messagecenterpost">>,
           <<"Write", "mcg_messagecenterpost">>,
           <<"Delete", "mcg_messagecenterpost">>,
           <<"Append", "mcg_messagecenterpost">>,
           <<"AppendTo", "mcg_messagecenterpost">>,
           <<"Assign", "mcg_messagecenterpost">>,
           <<"Share", "mcg_messagecenterpost">>, <<"Create", "mcg_assessmentlog">>,
           <<"Read", "mcg_assessmentlog">>, <<"Write", "mcg_assessmentlog">>,
           <<"Delete", "mcg_assessmentlog">>, <<"Append", "mcg_assessmentlog">>,
           <<"AppendTo", "mcg_assessmentlog">>, <<"Assign", "mcg_assessmentlog">>,
           <<"Share", "mcg_assessmentlog">>, <<"Create", "mcg_decisionlog">>,
           <<"Read", "mcg_decisionlog">>, <<"Write", "mcg_decisionlog">>,
           <<"Append", "mcg_decisionlog">>, <<"AppendTo", "mcg_decisionlog">> }
    [] role = "MC Owner" ->
         { <<"Create", "mcg_messagecenterpost">>,
           <<"Read", "mcg_messagecenterpost">>,
           <<"Write", "mcg_messagecenterpost">>,
           <<"Delete", "mcg_messagecenterpost">>,
           <<"Append", "mcg_messagecenterpost">>,
           <<"AppendTo", "mcg_messagecenterpost">>,
           <<"Assign", "mcg_messagecenterpost">>, <<"Create", "mcg_assessmentlog">>,
           <<"Read", "mcg_assessmentlog">>, <<"Write", "mcg_assessmentlog">>,
           <<"Delete", "mcg_assessmentlog">>, <<"Append", "mcg_assessmentlog">>,
           <<"AppendTo", "mcg_assessmentlog">>, <<"Assign", "mcg_assessmentlog">>,
           <<"Create", "mcg_decisionlog">>, <<"Read", "mcg_decisionlog">>,
           <<"Write", "mcg_decisionlog">>, <<"Append", "mcg_decisionlog">>,
           <<"AppendTo", "mcg_decisionlog">>, <<"Assign", "mcg_decisionlog">> }
    [] role = "MC Compliance Reviewer" ->
         { <<"Read", "mcg_messagecenterpost">>,
           <<"Write", "mcg_messagecenterpost">>,
           <<"Append", "mcg_messagecenterpost">>,
           <<"AppendTo", "mcg_messagecenterpost">>, <<"Read", "mcg_assessmentlog">>,
           <<"Read", "mcg_decisionlog">>, <<"Create", "mcg_decisionlog">>,
           <<"Append", "mcg_decisionlog">>, <<"AppendTo", "mcg_decisionlog">> }
    [] role = "MC Auditor" ->
         { <<"Read", "mcg_messagecenterpost">>, <<"Read", "mcg_assessmentlog">>,
           <<"Read", "mcg_decisionlog">> }
    [] OTHER -> {}

\* ROLES of create_security_roles.py
ELM_ROLE_PRIVILEGES(role) ==
  CASE role = "ELM Requester" ->
         { <<"Create", "fsi_environmentrequest">>,
           <<"Read", "fsi_environmentrequest">>,
           <<"Write", "fsi_environmentrequest">>,
           <<"Append", "fsi_environmentrequest">>,
           <<"AppendTo", "fsi_environmentrequest">>,
           <<"Read", "fsi_provisioninglog">> }
    [] role = "ELM Approver" ->
         { <<"Read", "fsi_environmentrequest">>,
           <<"Write", "fsi_environmentrequest">>, <<"Read", "fsi_provisioninglog">> }
    [] role = "ELM Admin" ->
         { <<"Create", "fsi_environmentrequest">>,
           <<"Read", "fsi_environmentrequest">>,
           <<"Write", "fsi_environmentrequest">>,
           <<"Append", "fsi_environmentrequest">>,
           <<"AppendTo", "fsi_environmentrequest">>,
           <<"Create", "fsi_provisioninglog">>, <<"Read", "fsi_provisioninglog">> }
    [] role = "ELM Auditor" ->
         { <<"Read", "fsi_environmentrequest">>, <<"Read", "fsi_provisioninglog">> }
    [] OTHER -> {}

MCG_ROLE_NAMES == {"MC Admin", "MC Owner", "MC Compliance Reviewer", "MC Auditor"}

ELM_ROLE_NAMES == {"ELM Requester", "ELM Approver", "ELM Admin", "ELM Auditor"}

(***************************************************************************)
(* Two runs of deploy_mcg.py at the same time against one environment:     *)
(* each does its lookup and its create of get_or_create_publisher and of   *)
(* create_security_role, and the steps of the two interleave.  Whether the *)
(* platform takes a second resource with a key it holds is the platform's  *)
(* choice (it answers the POST with success or with an error status).      *)
(***************************************************************************)
RACE_RUNS == {1, 2}

RACE_PROGRAM == << Op("get_or_create_publisher", PublisherKey),
                   Op("create_security_role", RoleKey("MC Admin")) >>

RaceIdle ==
  /\ p_pc = [p \in RACE_RUNS |-> Stopped("idle")]
  /\ p_remote = [k \in {PublisherKey, RoleKey("MC Admin")} |-> 0]
  /\ p_issued = {}

\* the environment of the two runs: a first deployment, or one on top of an
\* earlier one
RaceInit ==
  /\ p_pc = [p \in RACE_RUNS |-> Stopped("idle")]
  /\ p_remote \in [{PublisherKey, RoleKey("MC Admin")} -> {0, 1}]
  /\ p_issued = {}

RaceStart(p) ==
  /\ p_pc[p] = Stopped("idle")
  /\ p_pc' = [p_pc EXCEPT ![p] = Pc(1, "start", 0)]
  /\ UNCHANGED <<p_remote, p_issued>>

RaceAfterOp(p) ==
  IF p_pc[p].i = Len(RACE_PROGRAM) THEN Stopped("done") ELSE Pc(p_pc[p].i + 1, "start", 0)

\* a run that creates without regard to what its lookup found
RaceLookup_Blind(p) ==
  /\ p_pc[p].i > 0
  /\ p_pc[p].ph = "start"
  /\ p_pc' = [p_pc EXCEPT ![p] = Pc(p_pc[p].i, "create", 0)]
  /\ p_issued' = p_issued \cup {<<"req", p, "start", RACE_PROGRAM[p_pc[p].i].k>>}
  /\ UNCHANGED p_remote

\* the GET by natural key of get_or_create_publisher and of
\* create_security_role, with the early return when it matches
RaceLookup(p) ==
  /\ p_pc[p].i > 0
  /\ p_pc[p].ph = "start"
  /\ LET k == RACE_PROGRAM[p_pc[p].i].k
     IN /\ p_pc' = [p_pc EXCEPT ![p] =
                      IF p_remote[k] > 0 THEN RaceAfterOp(p) ELSE Pc(p_pc[p].i, "create", 0)]
        /\ p_issued' = p_issued \cup {<<"req", p, "start", k>>}
                         \cup (IF p_remote[k] > 0 THEN {} ELSE {<<"miss", p, "start", k>>})
  /\ UNCHANGED p_remote

\* the POST: a success adds a resource; an error status raises out of deploy()
RaceCreate(p) ==
  /\ p_pc[p].i > 0
  /\ p_pc[p].ph = "create"
  /\ LET k == RACE_PROGRAM[p_pc[p].i].k
     IN /\ p_issued' = p_issued \cup {<<"req", p, "create", k>>}
        /\ \E accepted \in (IF p_remote[k] > 0 THEN BOOLEAN ELSE {TRUE}) :
             IF accepted
               THEN /\ p_remote' = [p_remote EXCEPT ![k] = @ + 1]
                    /\ p_pc' = [p_pc EXCEPT ![p] = RaceAfterOp(p)]
               ELSE /\ p_remote' = p_remote
                    /\ p_pc' = [p_pc EXCEPT ![p] = Stopped("aborted")]

(***************************************************************************)
(* Specifications                                                          *)
(***************************************************************************)
InitCmd == CmdInit /\ ReqIdle /\ McgIdle /\ ElmIdle /\ AuditIdle /\ ClientIdle /\ RaceIdle
NextCmd == HookCheck /\ UNCHANGED <<reqVars, mcgVars, elmVars, auditVars, clientVars, raceVars>>
SpecCmd == InitCmd /\ [][NextCmd]_vars

InitReq == ReqIdle /\ CmdIdle /\ McgIdle /\ ElmIdle /\ AuditIdle /\ ClientIdle /\ RaceIdle
NextReq ==
  \/ Request_Call /\ UNCHANGED <<cmdVars, mcgVars, elmVars, auditVars, clientVars, raceVars>>
  \/ Request_Send /\ UNCHANGED <<cmdVars, mcgVars, elmVars, auditVars, clientVars, raceVars>>
  \/ Request_Sleep /\ UNCHANGED <<cmdVars, mcgVars, elmVars, auditVars, clientVars, raceVars>>
SpecReq == InitReq /\ [][NextReq]_vars

\* deploy_mcg.py alone
InitMcg == McgIdle /\ CmdIdle /\ ReqIdle /\ ElmIdle /\ AuditIdle /\ ClientIdle /\ RaceIdle
NextMcg ==
  \/ StartRun /\ UNCHANGED <<cmdVars, reqVars, elmVars, auditVars, clientVars, raceVars>>
  \/ Authenticate /\ UNCHANGED <<cmdVars, reqVars, elmVars, auditVars, clientVars, raceVars>>
  \/ GetOrCreatePublisher /\ UNCHANGED <<cmdVars, reqVars, elmVars, auditVars, clientVars, raceVars>>
  \/ GetOrCreateSolution /\ UNCHANGED <<cmdVars, reqVars, elmVars, auditVars, clientVars, raceVars>>
  \/ CreateTable /\ UNCHANGED <<cmdVars, reqVars, elmVars, auditVars, clientVars, raceVars>>
  \/ AddColumn /\ UNCHANGED <<cmdVars, reqVars, elmVars, auditVars, clientVars, raceVars>>
  \/ AddLookupColumn /\ UNCHANGED <<cmdVars, reqVars, elmVars, auditVars, clientVars, raceVars>>
  \/ CreateRelationship /\ UNCHANGED <<cmdVars, reqVars, elmVars, auditVars, clientVars, raceVars>>
  \/ CreateAlternateKey /\ UNCHANGED <<cmdVars, reqVars, elmVars, auditVars, clientVars, raceVars>>
  \/ WaitForAlternateKey /\ UNCHANGED <<cmdVars, reqVars, elmVars, auditVars, clientVars, raceVars>>
  \/ CreateEnvironmentVariable /\ UNCHANGED <<cmdVars, reqVars, elmVars, auditVars, clientVars, raceVars>>
  \/ CreateView /\ UNCHANGED <<cmdVars, reqVars, elmVars, auditVars, clientVars, raceVars>>
  \/ CreateForm /\ UNCHANGED <<cmdVars, reqVars, elmVars, auditVars, clientVars, raceVars>>
  \/ CreateBusinessProcessFlow /\ UNCHANGED <<cmdVars, reqVars, elmVars, auditVars, clientVars, raceVars>>
  \/ PublishAll /\ UNCHANGED <<cmdVars, reqVars, elmVars, auditVars, clientVars, raceVars>>
  \/ WaitForPrivileges /\ UNCHANGED <<cmdVars, reqVars, elmVars, auditVars, clientVars, raceVars>>
  \/ GetRootBusinessUnit /\ UNCHANGED <<cmdVars, reqVars, elmVars, auditVars, clientVars, raceVars>>
  \/ CreateSecurityRole /\ UNCHANGED <<cmdVars, reqVars, elmVars, auditVars, clientVars, raceVars>>
  \/ CreateModelDrivenApp /\ UNCHANGED <<cmdVars, reqVars, elmVars, auditVars, clientVars, raceVars>>
  \/ DeployAppLookup /\ UNCHANGED <<cmdVars, reqVars, elmVars, auditVars, clientVars, raceVars>>
  \/ AddComponentsToApp /\ UNCHANGED <<cmdVars, reqVars, elmVars, auditVars, clientVars, raceVars>>
  \/ AssociateRolesToApp /\ UNCHANGED <<cmdVars, reqVars, elmVars, auditVars, clientVars, raceVars>>
  \/ VerifyDeployment /\ UNCHANGED <<cmdVars, reqVars, elmVars, auditVars, clientVars, raceVars>>
  \/ KeyActivates /\ UNCHANGED <<cmdVars, reqVars, elmVars, auditVars, clientVars, raceVars>>
  \/ PrivilegesPropagate /\ UNCHANGED <<cmdVars, reqVars, elmVars, auditVars, clientVars, raceVars>>
SpecMcg == InitMcg /\ [][NextMcg]_vars

\* deploy_mcg.py with its client: calls of DataverseClient._request, and
\* runs of deploy() whose requests are answered as _request answers them
InitRetry == InitMcg
NextRetry ==
  \/ m_run = 0 /\ Request_Call /\ UNCHANGED <<cmdVars, mcgVars, elmVars, auditVars, clientVars, raceVars>>
  \/ m_run = 0 /\ Request_Send /\ UNCHANGED <<cmdVars, mcgVars, elmVars, auditVars, clientVars, raceVars>>
  \/ m_run = 0 /\ Request_Sleep /\ UNCHANGED <<cmdVars, mcgVars, elmVars, auditVars, clientVars, raceVars>>
  \/ rq_pc = "idle" /\ NextMcg
SpecRetry == InitRetry /\ [][NextRetry]_vars

\* deploy_mcg.py while the process is left to run: a poll of the alternate
\* key that can be made is made
SpecMcgLive ==
  /\ InitMcg
  /\ [][NextMcg]_vars
  /\ WF_vars(WaitForAlternateKey /\ UNCHANGED <<cmdVars, reqVars, elmVars, auditVars, clientVars, raceVars>>)

\* the ELM scripts alone
\* the resources verify_deployment expects
Expected ==
  {k \in ResourceKeys : k[1] \in {"table", "role", "app", "envvar", "view"}}
  \ {RoleKey("Basic User")}

\* verify_deployment is called on its own, as an audit of an environment in
\* which any of the expected resources may be missing and a role may be empty
InitVerify ==
  /\ \E present \in SUBSET Expected,
        privs \in SUBSET {<<"MC Admin", <<"Create", "mcg_messagecenterpost">>>>,
                          <<"MC Auditor", <<"Read", "mcg_assessmentlog">>>>} :
       /\ \A p \in privs : RoleKey(p[1]) \in present
       /\ m_remote = [res |-> [k \in ResourceKeys |->
                                 IF k \in present \/ k = RoleKey("Basic User") THEN 1 ELSE 0],
                      rolePrivs |-> privs, envValues |-> {}, appComps |-> {}, appRoles |-> {},
                      keyStatus |-> "none", published |-> {}, privReady |-> {},
                      unpublished |-> FALSE]
  /\ m_pc = Pc(IndexOf("verify_deployment", TableKey(TABLE_DEFINITIONS[1])), "start", 0)
  /\ m_run = 1
  /\ m_faults = 0
  /\ m_existing = {}
  /\ m_log = [issued |-> {}, lastFail |-> <<>>, cont |-> FALSE, degraded |-> FALSE,
              prev |-> "idle", snap |-> Snapshot(m_remote), results |-> NoResults,
              failed |-> {}, reissued |-> FALSE]

\* between two runs somebody with the System Administrator role gives ELM
\* Admin a privilege on the provisioning log
AdminGrants ==
  /\ e_pc.i = 0
  /\ e_run >= 1
  /\ ElmExists(RoleKey("ELM Admin"))
  /\ \A f \in FORBIDDEN : <<"ELM Admin", f>> \notin e_remote.rolePrivs
  /\ \E f \in FORBIDDEN : e_remote' = [e_remote EXCEPT !.rolePrivs = @ \cup {<<"ELM Admin", f>>}]
  /\ UNCHANGED <<e_pc, e_run, e_faults, e_dry, e_mode, e_privmap, e_log>>

\* the create requests create_field_security has issued in this run
FieldSecurityCreates ==
  {e \in e_log.issued : e[1] = "req" /\ e[2] = "create_field_security" /\ e[3] = "create"}

\* the table and every field of APPROVER_FIELD_PERMISSIONS are in the target
ApproverFieldsPresent ==
  /\ ElmExists(TableKey(ER))
  /\ \A i \in 1..Len(APPROVER_FIELD_PERMISSIONS) :
       ElmExists(<<"column", ER, APPROVER_FIELD_PERMISSIONS[i]>>)

\* create_field_security returned False at its validation
FieldValidationFailed ==
  \E ph \in {"start", "validate"} :
    /\ <<"error", "create_field_security", ph, Setup("fields")>> \in e_log.issued
    /\ e_log.lastFail # <<"create_field_security", ph, "err">>

\* exit code of deploy.py, of register_service_principal.py and of
\* create_field_security.py: 0 when deploy() returned True or main() reached
\* its end, 1 from the except clause and, in create_field_security.py, when
\* create_field_security returned False
ElmExitCode ==
  IF e_pc = Stopped("done")
    THEN IF e_mode = "field_security" /\ FieldValidationFailed THEN 1 ELSE 0
    ELSE IF e_pc = Stopped("aborted") THEN 1 ELSE -1

InitElm == ElmIdle /\ CmdIdle /\ ReqIdle /\ McgIdle /\ AuditIdle /\ ClientIdle /\ RaceIdle
NextElm ==
  \/ ElmStartRun /\ UNCHANGED <<cmdVars, reqVars, mcgVars, auditVars, clientVars, raceVars>>
  \/ TestConnection /\ UNCHANGED <<cmdVars, reqVars, mcgVars, auditVars, clientVars, raceVars>>
  \/ CreateOptionsets /\ UNCHANGED <<cmdVars, reqVars, mcgVars, auditVars, clientVars, raceVars>>
  \/ CreateTables /\ UNCHANGED <<cmdVars, reqVars, mcgVars, auditVars, clientVars, raceVars>>
  \/ CreateColumns /\ UNCHANGED <<cmdVars, reqVars, mcgVars, auditVars, clientVars, raceVars>>
  \/ CreateRoles /\ UNCHANGED <<cmdVars, reqVars, mcgVars, auditVars, clientVars, raceVars>>
  \/ CreateBusinessRules /\ UNCHANGED <<cmdVars, reqVars, mcgVars, auditVars, clientVars, raceVars>>
  \/ CreateViews /\ UNCHANGED <<cmdVars, reqVars, mcgVars, auditVars, clientVars, raceVars>>
  \/ CreateFieldSecurity /\ UNCHANGED <<cmdVars, reqVars, mcgVars, auditVars, clientVars, raceVars>>
  \/ GetToken /\ UNCHANGED <<cmdVars, reqVars, mcgVars, auditVars, clientVars, raceVars>>
  \/ CreateAppRegistration /\ UNCHANGED <<cmdVars, reqVars, mcgVars, auditVars, clientVars, raceVars>>
  \/ CreateClientSecret /\ UNCHANGED <<cmdVars, reqVars, mcgVars, auditVars, clientVars, raceVars>>
  \/ StoreInKeyVault /\ UNCHANGED <<cmdVars, reqVars, mcgVars, auditVars, clientVars, raceVars>>
  \/ ElmPrivilegesPropagate /\ UNCHANGED <<cmdVars, reqVars, mcgVars, auditVars, clientVars, raceVars>>
  \/ AdminGrants /\ UNCHANGED <<cmdVars, reqVars, mcgVars, auditVars, clientVars, raceVars>>
SpecElm == InitElm /\ [][NextElm]_vars

\* the audits: verify_deployment on its own, or the audit scripts
InitAudit ==
  /\ CmdIdle /\ ReqIdle /\ ElmIdle /\ AuditIdle /\ ClientIdle /\ RaceIdle
  /\ InitVerify \/ McgIdle
NextAudit ==
  \/ VerifyDeployment /\ UNCHANGED <<cmdVars, reqVars, elmVars, auditVars, clientVars, raceVars>>
  \/ m_run = 0 /\ AuditStart /\ UNCHANGED <<cmdVars, reqVars, mcgVars, elmVars, clientVars, raceVars>>
  \/ VerifyRolePrivileges /\ UNCHANGED <<cmdVars, reqVars, mcgVars, elmVars, clientVars, raceVars>>
  \/ ValidateImmutability /\ UNCHANGED <<cmdVars, reqVars, mcgVars, elmVars, clientVars, raceVars>>
  \/ ExportQuarterlyEvidence /\ UNCHANGED <<cmdVars, reqVars, mcgVars, elmVars, clientVars, raceVars>>
SpecAudit == InitAudit /\ [][NextAudit]_vars

\* elm_client.py alone
InitClient == ClientIdle /\ CmdIdle /\ ReqIdle /\ McgIdle /\ ElmIdle /\ AuditIdle /\ RaceIdle
NextClient ==
  \/ ClientCall /\ UNCHANGED <<cmdVars, reqVars, mcgVars, elmVars, auditVars, raceVars>>
  \/ ClientGetHeaders /\ UNCHANGED <<cmdVars, reqVars, mcgVars, elmVars, auditVars, raceVars>>
  \/ ClientSend /\ UNCHANGED <<cmdVars, reqVars, mcgVars, elmVars, auditVars, raceVars>>
SpecClient == InitClient /\ [][NextClient]_vars

\* two runs of deploy_mcg.py at the same time
InitRace == RaceInit /\ CmdIdle /\ ReqIdle /\ McgIdle /\ ElmIdle /\ AuditIdle /\ ClientIdle
NextRace ==
  \/ \E p \in RACE_RUNS : RaceStart(p) /\ UNCHANGED <<cmdVars, reqVars, mcgVars, elmVars, auditVars, clientVars>>
  \/ \E p \in RACE_RUNS : RaceLookup(p) /\ UNCHANGED <<cmdVars, reqVars, mcgVars, elmVars, auditVars, clientVars>>
  \/ \E p \in RACE_RUNS : RaceCreate(p) /\ UNCHANGED <<cmdVars, reqVars, mcgVars, elmVars, auditVars, clientVars>>
SpecRace == InitRace /\ [][NextRace]_vars

\* any of the scripts, against an environment of its own
InitDeploy == McgIdle /\ ElmIdle /\ CmdIdle /\ ReqIdle /\ AuditIdle /\ ClientIdle /\ RaceIdle
NextDeploy ==
  \/ e_run = 0 /\ a_run = 0 /\ c_calls = 0 /\ NextMcg
  \/ m_run = 0 /\ a_run = 0 /\ c_calls = 0 /\ NextElm
  \/ e_run = 0 /\ m_run = 0 /\ c_calls = 0 /\ NextAudit
  \/ e_run = 0 /\ m_run = 0 /\ a_run = 0 /\ NextClient
SpecDeploy == InitDeploy /\ [][NextDeploy]_vars

(***************************************************************************)
(* Properties of DataverseClient._request                                  *)
(***************************************************************************)
All429(n) == \A i \in 1..n : rq_responses[i].status = 429

\* C5: _request makes at most 3 HTTP attempts per call; after each 429 it
\* sleeps the seconds of the Retry-After header (30 when the header is absent)
\* and retries; it returns only a response that is not a 429, and it raises
\* exactly when all 3 attempts were answered with 429.
C5_RetryBound ==
  /\ rq_attempts <= 3
  /\ Len(rq_responses) = rq_attempts
  /\ Len(rq_slept) = (IF rq_pc = "sleep" THEN rq_attempts - 1
                      ELSE IF rq_pc = "returned" THEN rq_attempts - 1
                      ELSE rq_attempts)
  /\ \A i \in 1..Len(rq_slept) :
       /\ rq_responses[i].status = 429
       /\ rq_slept[i] = (IF rq_responses[i].retry_after = <<>>
                           THEN 30 ELSE rq_responses[i].retry_after[1])
  /\ rq_pc = "returned" =>
       /\ rq_responses[rq_attempts].status # 429
       /\ All429(rq_attempts - 1)
  /\ rq_pc = "sleep" => All429(rq_attempts)
  /\ rq_pc = "raised" <=> (rq_attempts = 3 /\ All429(3) /\ Len(rq_slept) = 3)
  /\ rq_pc = "send" => rq_attempts < 3

\* three throttled attempts, slept 30 s (no header), 7 s and 30 s, then the exception
C5_Witness ==
  /\ rq_pc = "raised"
  /\ rq_attempts = 3
  /\ rq_slept = <<30, 7, 30>>

(***************************************************************************)
(* Properties of check_command                                             *)
(***************************************************************************)
Words(cmd) == SplitWs(ToLower(cmd), 1, <<>>, <<>>)

\* a word that is an absolute path: it begins with "/" or with a drive (x:\)
IsAbsoluteWord(w) ==
  \/ StartsWith(w, <<"/">>)
  \/ (Len(w) >= 3 /\ IsLowerLetter(w[1]) /\ w[2] = ":" /\ w[3] = "\\")

\* the configured roots: project root, companion framework repo, ~/.claude
ConfiguredRoots(win) ==
  { ToLower(PROJECT_ROOT(win)), ToLower(PROJECT_ROOT_UNIX(win)),
    ToLower(FRAMEWORK_ROOT(win)), ToLower(FRAMEWORK_ROOT_UNIX(win)),
    ToLower(CLAUDE_GLOBAL_DIR(win)), ToLower(CLAUDE_GLOBAL_DIR_UNIX(win)) }

HasAbsolutePath(cmd) == \E n \in DOMAIN Words(cmd) : IsAbsoluteWord(Words(cmd)[n])

HasOutsideAbsolutePath(cmd, win) ==
  \E n \in DOMAIN Words(cmd) :
    /\ IsAbsoluteWord(Words(cmd)[n])
    /\ \A root \in ConfiguredRoots(win) : ~StartsWith(Words(cmd)[n], root)

\* the number of "../" that follow each other from index i on
RECURSIVE ClimbFrom(_, _)
ClimbFrom(s, i) == IF At(s, i, <<".", ".", "/">>) THEN 1 + ClimbFrom(s, i + 3) ELSE 0

\* the longest run of consecutive "../" in the command
LongestClimb(cmd) ==
  LET runs == {ClimbFrom(cmd, i) : i \in 1..(Len(cmd) + 1)}
  IN CHOOSE m \in runs : \A k \in runs : k <= m

\* a "/c/" or "/d/" path segment that does not follow a letter
HasDriveSegment(cmd) ==
  LET s == ToLower(cmd) IN
  \E i \in 1..Len(s) :
    /\ i + 2 <= Len(s)
    /\ s[i] = "/" /\ s[i + 1] \in {"c", "d"} /\ s[i + 2] = "/"
    /\ (i = 1 \/ ~IsLowerLetter(s[i - 1]))

\* the command ends with the words rm, -r or -rf, /
EndsWithRmRoot(cmd) ==
  LET w == Words(cmd) n == Len(Words(cmd)) IN
    /\ n >= 3
    /\ w[n - 2] = <<"r", "m">>
    /\ w[n - 1] \in {<<"-", "r">>, <<"-", "r", "f">>}
    /\ w[n] = <<"/">>

\* C8: check_command returns block for every command that contains an
\* absolute path outside the configured roots and matches no safe pattern.
C8_OutsidePathBlocked ==
  ( /\ decision # "pending"
    /\ hook = "framework"
    /\ HasOutsideAbsolutePath(command, is_windows)
    /\ ~MatchesSafePattern(ToLower(command)) )
  => decision = "block"

\* C9 as claimed: check_command returns allow for every command without any
\* absolute path, however far its relative paths climb.
C9_RelativeAllowed_Claimed ==
  (decision # "pending" /\ hook = "framework" /\ ~HasAbsolutePath(command))
    => decision = "allow"

\* C9: check_command returns allow for every command that holds no absolute
\* path, fewer than four consecutive "../" and, on Windows, no "/c/" or "/d/"
\* segment after a non-letter.
C9_RelativeAllowed ==
  ( /\ decision # "pending"
    /\ hook = "framework"
    /\ ~HasAbsolutePath(command)
    /\ LongestClimb(command) < 4
    /\ (is_windows => ~HasDriveSegment(command)) )
  => decision = "allow"

\* a relative path that climbs three levels is allowed
C9_Witness ==
  /\ hook = "framework"
  /\ decision = "allow"
  /\ ~HasAbsolutePath(command)
  /\ LongestClimb(command) = 3

\* C10: the hazardous patterns are looked at first: a command with four or
\* more consecutive "../", or one that ends in a recursive delete of "/", is
\* blocked, also when it names the project root or matches a safe pattern.
C10_HazardFirst ==
  ( /\ decision # "pending"
    /\ hook = "framework"
    /\ (LongestClimb(command) >= 4 \/ EndsWithRmRoot(command)) )
  => decision = "block"

\* blocked although the command starts with "rm " and names the project root
C10_Witness ==
  /\ decision = "block"
  /\ LongestClimb(command) >= 4
  /\ MatchesLeadingWord(ToLower(command), <<"r", "m">>)
  /\ HasSub(ToLower(command), ToLower(PROJECT_ROOT(is_windows)))

(***************************************************************************)
(* Properties of deploy_mcg.deploy                                         *)
(***************************************************************************)
\* the environment one run without failure, timeout or abort leaves behind
UninterruptedResult ==
  [res |-> [k \in ResourceKeys |-> 1],
   rolePrivs |-> {<<"MC Admin", <<"Create", "mcg_messagecenterpost">>>>,
                  <<"MC Admin", <<"Read", "mcg_decisionlog">>>>,
                  <<"MC Auditor", <<"Read", "mcg_assessmentlog">>>>},
   envValues |-> {<<"envvar", "", "mcg_PollingInterval">>},
   appComps |-> {k \in ResourceKeys : k[1] \in {"table", "view", "form", "bpf"}},
   appRoles |-> {k \in ResourceKeys : k[1] = "role"},
   keyStatus |-> "Active",
   published |-> {k \in ResourceKeys : k[1] = "table"},
   privReady |-> {},
   unpublished |-> FALSE]

IssuedAt(methods, phases) ==
  {e \in m_log.issued : e[1] = "req" /\ e[2] \in methods /\ e[3] \in phases}

AllPhases ==
  {"start", "create", "refetch", "value", "privget", "privadd", "metaget", "addcomp",
   "add", "rolelookup", "assoc", "privcount"}

\* C1: when deploy() has run to completion and is run again, with no failing
\* call in either run, the second run issues no create request (publisher,
\* solution, table, column, relationship, key, variable and its value, view,
\* form, flow, role, app) and the environment stays as the first run left it.
C1_SecondRunCreatesNothing ==
  (m_run >= 2 /\ m_log.prev = "done" /\ m_faults = 0)
  => /\ IssuedAt({Program[i].m : i \in 1..Len(Program)}, {"create", "value"}) = {}
     /\ Snapshot(m_remote) = m_log.snap

\* the second of two complete runs without failure has returned
C1_Witness ==
  /\ m_run = 2
  /\ m_pc = Stopped("done")
  /\ m_log.prev = "done"
  /\ m_faults = 0
  /\ Snapshot(m_remote) = UninterruptedResult

\* C3 as claimed: a run that follows an aborted run and completes (with no
\* tolerated failure and no privilege timeout on the way) leaves the
\* environment of one uninterrupted run: every role with all privileges of
\* its definition, the variable with its default value, the app with its
\* entity components.
C3_RerunEqualsUninterrupted ==
  (m_pc = Stopped("done") /\ m_log.prev = "aborted" /\ ~m_log.degraded)
  => Snapshot(m_remote) = UninterruptedResult

\* the calls whose failure deploy_mcg.py only warns about
ToleratedMcg ==
  { <<"create_environment_variable", "value", "err">>,
    <<"create_business_process_flow", "create", "err">>,
    <<"create_security_role", "privadd", "err">>,
    <<"create_model_driven_app", "addcomp", "err">>,
    <<"create_model_driven_app", "addcomp", "exc">>,
    <<"add_components_to_app", "add", "err">>,
    <<"add_components_to_app", "add", "exc">>,
    <<"associate_roles_to_app", "assoc", "err">>,
    <<"associate_roles_to_app", "assoc", "exc">> }

\* C6: in every run a column or lookup request is issued only when its table
\* exists, a relationship request only when all tables exist, and a request
\* of create_security_role (the role's creation and every privilege
\* assignment) only after the first publish_all succeeded and the wait for
\* the privileges ended.
C6_Ordering ==
  /\ \A e \in IssuedAt({"add_column", "add_lookup_column"}, AllPhases) :
       Exists(TableKey(e[4][2]))
  /\ IssuedAt({"create_relationship"}, AllPhases) # {}
       => \A i \in 1..Len(TABLE_DEFINITIONS) : Exists(TableKey(TABLE_DEFINITIONS[i]))
  /\ IssuedAt({"create_security_role"}, AllPhases) # {}
       => /\ <<"ok", "publish_all", "start", <<"publish", "", "first">>>> \in m_log.issued
          /\ <<"done", "wait_for_privileges", "", NoKey>> \in m_log.issued

\* a first run has assigned a privilege to a role it created
C6_Witness ==
  /\ m_run = 1
  /\ IssuedAt({"create_security_role"}, {"privadd"}) # {}
  /\ m_remote.rolePrivs # {}


\* the create requests of the resources with a natural key that a run of the
\* ELM deployment issued
ElmIssuedCreates ==
  {e \in e_log.issued : e[1] = "req" /\ e[3] = "create" /\ e[4] \in ElmResourceKeys}

\* C2 as claimed: every create request of a natural key was preceded, in the
\* same run, by a lookup of that key that found nothing, and no run of either
\* deployment leaves two resources with one natural key; the field permissions
\* of the profile ELM Approver Fields are among the keys.
C2_CreateOnlyAfterMiss ==
  /\ \A e \in IssuedAt({Program[i].m : i \in 1..Len(Program)}, {"create"}) :
       <<"miss", e[2], "start", e[4]>> \in m_log.issued
  /\ \A k \in ResourceKeys : m_remote.res[k] <= 1
  /\ \A e \in ElmIssuedCreates : <<"miss", e[2], "start", e[4]>> \in e_log.issued
  /\ \A k \in ElmResourceKeys : e_remote.res[k] <= 1

\* the calls whose failure the ELM scripts only print
ToleratedElm ==
  { <<"create_roles", "priv", "err">>,
    <<"create_business_rules", "create", "err">>,
    <<"create_views", "create", "err">>,
    <<"create_field_security", "create", "err">>,
    <<"create_field_security", "create", "dup">> }

C7_DryRunOnlyLooksUp ==
  (e_dry /\ e_run >= 1)
  => /\ \A e \in e_log.issued : e[1] = "req" => e[3] \notin {"create", "priv"}
     /\ [e_remote EXCEPT !.privReady = {}, !.rolePrivs = @ \ ({"ELM Admin"} \X FORBIDDEN)]
        = [e_log.snap EXCEPT !.privReady = {}, !.rolePrivs = @ \ ({"ELM Admin"} \X FORBIDDEN)]

\* a dry run of the full deployment has returned, against an environment
\* where the schema exists and the profile does not
C7_Witness ==
  /\ e_dry
  /\ e_mode = "full"
  /\ e_pc = Stopped("done")
  /\ ElmExists(TableKey(ER))
  /\ ~ElmExists(ProfileKey)
  /\ <<"miss", "create_field_security", "start", ProfileKey>> \in e_log.issued


\* C20: in a full deployment a request of a phase is issued only when the
\* phase before it is through: tables after every option set was looked up
\* (and, outside a dry run, exists), columns after both tables, roles and
\* privilege assignments after every column, business rules after the roles'
\* last request, views after the rules, field security after the views.
C20_ElmOrdering ==
  LET Req(method) == {e \in e_log.issued : e[1] = "req" /\ e[2] = method}
      Through(method, keys) ==
        \A i \in 1..Len(keys) :
          /\ <<"req", method, "start", keys[i]>> \in e_log.issued
          /\ ~e_dry => ElmExists(keys[i])
  IN e_mode = "full" =>
       /\ Req("create_tables") # {} => Through("create_optionsets", OPTIONSETS)
       /\ Req("create_columns") # {} => Through("create_tables", ELM_TABLES)
       /\ Req("create_roles") # {} => Through("create_columns", ELM_COLUMNS)
       /\ Req("create_business_rules") # {}
            => <<"req", "create_roles", "start", Setup("immutability")>> \in e_log.issued
       /\ Req("create_views") # {}
            => \A i \in 1..Len(BUSINESS_RULES) :
                 <<"req", "create_business_rules", "start", BUSINESS_RULES[i]>> \in e_log.issued
       /\ Req("create_field_security") # {}
            => <<"req", "create_views", "pl", Setup("views")>> \in e_log.issued

\* a full deployment of an empty environment has created the last field
\* permission and returned
C20_Witness ==
  /\ e_mode = "full"
  /\ ~e_dry
  /\ e_run = 1
  /\ e_pc = Stopped("done")
  /\ ElmExists(PermissionKey("fsi_approver"))
  /\ <<"ELM Admin", <<"Create", PL>>>> \in e_remote.rolePrivs

\* C19 as claimed: deploy.py exits 0 (deploy() returned True) only when no
\* phase of the run reported an error: no failed call, no phase that
\* returned early because a table or a field was missing.
C19_TrueOnlyOnSuccess ==
  (e_mode # "register" /\ ElmExitCode = 0)
  => \A e \in e_log.issued : e[1] # "error"

\* C15: verify_deployment enters every expected resource exactly once: a
\* resource that exists in its found list (a role with its privilege count)
\* and not in issues as not found, a resource that does not exist in issues
\* as not found and in no found list; a role found with no privilege is in
\* issues as well.  While verify_deployment runs this holds for the resources
\* it has come to.
C15_AccountedOnce ==
  LET r == m_log.results
      Times(seq, x) == Cardinality({i \in 1..Len(seq) : seq[i] = x})
      FoundList(k) == CASE k[1] = "table" -> r.tables
                        [] k[1] = "app" -> r.app
                        [] k[1] = "envvar" -> r.env_vars
                        [] k[1] = "view" -> r.views
                        [] OTHER -> [i \in 1..Len(r.roles) |-> r.roles[i][1]]
      Asked(k) == \/ <<"req", "verify_deployment", "privcount", k>> \in m_log.issued
                  \/ /\ <<"req", "verify_deployment", "start", k>> \in m_log.issued
                     /\ (m_pc.i = 0 \/ Cur.k # k)
  IN (Running("verify_deployment") \/ m_pc = Stopped("done"))
     => \A k \in Expected :
          /\ Times(FoundList(k), k) + Times(r.issues, <<"not found", k>>)
               = (IF Asked(k) THEN 1 ELSE 0)
          /\ Asked(k) => (Times(FoundList(k), k) = 1 <=> Exists(k))
          /\ (k[1] = "role" /\ Asked(k) /\ Exists(k))
               => /\ Times(r.roles, <<k, Cardinality({p \in m_remote.rolePrivs : p[1] = k[3]})>>) = 1
                  /\ Times(r.issues, <<"ZERO privileges", k>>)
                       = (IF \E p \in m_remote.rolePrivs : p[1] = k[3] THEN 0 ELSE 1)

\* verify_deployment has returned with a table that is missing, a role that
\* is empty and a role that has a privilege
C15_Witness ==
  /\ m_pc = Stopped("done")
  /\ m_log.results.issues # <<>>
  /\ \E i \in 1..Len(m_log.results.issues) : m_log.results.issues[i][1] = "not found"
  /\ <<"ZERO privileges", RoleKey("MC Auditor")>> =
       m_log.results.issues[Len(m_log.results.issues)]
  /\ m_log.results.roles[1] = <<RoleKey("MC Admin"), 1>>
  /\ Len(m_log.results.tables) = 2


(***************************************************************************)
(* Properties of the audit scripts                                         *)
(***************************************************************************)
\* C11: verify_role_privileges records a role as passed only if the role
\* holds neither Write nor Delete on the provisioning log, and create_roles
\* reports the immutability verification of ELM Admin as PASSED only if the
\* role holds neither of the two privileges.
C11_PassedOnlyWithoutWriteDelete ==
  /\ a_script = "verify_role_privileges" =>
       \A i \in 1..Len(a_acc.roles) :
         a_acc.roles[i].passed =>
           \A row \in a_env.roles[a_acc.roles[i].name].rows :
             ~(row.entity = PL /\ row.action \in {"Write", "Delete"})
  /\ (e_pc.i # 0 /\ \E e \in e_log.issued : e[1] = "immutability" /\ e[3] = "PASSED") =>
       \A f \in FORBIDDEN : <<"ELM Admin", f>> \notin e_remote.rolePrivs

C11_Witness ==
  /\ a_script = "verify_role_privileges"
  /\ \E i \in 1..Len(a_acc.roles) :
       /\ a_acc.roles[i].passed
       /\ a_env.roles[a_acc.roles[i].name].rows # {}


AuditRaised == \E i \in 1..Len(a_acc.requests) : a_acc.requests[i][3] = "raised"

\* what validate_immutability is to find in the environment
AuditFindings ==
  \E q \in {"updates", "deletes", "incomplete", "orphaned"} : a_env.audit[q] > 0

\* C16: validate_immutability exits with 3 when the range holds an Update or
\* Delete audit entry, an incomplete or an orphaned record, and with 0 only
\* when it holds none; verify_role_privileges exits with 3 when a checked role
\* failed and with 0 only when every expected role was checked and passed;
\* either script exits with 1 exactly when a request raised.
C16_ExitCodes ==
  (a_script \in {"validate_immutability", "verify_role_privileges"} /\ a_exit # -1) =>
    /\ a_exit \in {0, 1, 3}
    /\ a_exit = 1 <=> AuditRaised
    /\ a_script = "validate_immutability" =>
         /\ a_exit = 0 => ~AuditFindings /\ Len(a_acc.counts) = Len(AUDIT_QUERIES)
         /\ (AuditFindings /\ ~AuditRaised) => a_exit = 3
    /\ a_script = "verify_role_privileges" =>
         /\ a_exit = 0 =>
              /\ Len(a_acc.roles) = Len(EXPECTED_ROLE_NAMES)
              /\ \A i \in 1..Len(a_acc.roles) :
                   /\ a_acc.roles[i].name = EXPECTED_ROLE_NAMES[i]
                   /\ a_acc.roles[i].passed
                   /\ a_env.roles[a_acc.roles[i].name].exists
         /\ ((\E i \in 1..Len(a_acc.roles) : ~a_acc.roles[i].passed) /\ ~AuditRaised) =>
              a_exit = 3

C16_Witness ==
  /\ a_script = "validate_immutability"
  /\ a_exit = 3
  /\ a_env.audit["updates"] = 0 /\ a_env.audit["deletes"] = 0
  /\ a_env.audit["orphaned"] = 1


\* C14: a verification pass is read-only: no step of verify_deployment
\* changes the environment, and verify_role_privileges and
\* validate_immutability issue GET requests only and leave the environment
\* as it was.
C14_ReadOnly ==
  [][ /\ Running("verify_deployment") => m_remote' = m_remote
      /\ (a_script \in {"verify_role_privileges", "validate_immutability"} /\ a_pc.i # 0) =>
           /\ a_env' = a_env
           /\ \A i \in 1..Len(a_acc'.requests) : a_acc'.requests[i][1] = "GET" ]_vars

C14_Witness ==
  /\ a_script = "verify_role_privileges"
  /\ a_pc = Stopped("done")
  /\ Len(a_acc.requests) = 2 * Len(EXPECTED_ROLE_NAMES)
  /\ \A i \in 1..Len(a_acc.requests) : a_acc.requests[i][1] = "GET"


\* C13: export_quarterly_evidence writes, for a table without records in the
\* range, a file holding the empty JSON array and a manifest entry with
\* recordCount 0 and isEmpty true; isEmpty is true exactly when recordCount
\* is 0; a run in which no request raised writes manifest.json and exits
\* with 0.
C13_EmptyExport ==
  a_script = "export_quarterly_evidence" =>
    /\ \A i \in 1..Len(a_acc.manifest) :
         LET entry == a_acc.manifest[i]
         IN /\ entry.table = EXPORT_TABLES[i]
            /\ entry.recordCount = Cardinality(a_env.records[entry.table])
            /\ entry.isEmpty <=> entry.recordCount = 0
            /\ a_env.records[entry.table] = {} =>
                 /\ entry.isEmpty
                 /\ <<entry.table, <<"[", "]">> >> \in a_acc.files
    /\ a_pc = Stopped("done") =>
         /\ a_exit = 0
         /\ Len(a_acc.manifest) = Len(EXPORT_TABLES)
         /\ \E f \in a_acc.files : f[1] = "manifest.json"
    /\ (a_pc.i = 0 /\ a_run > 0 /\ ~AuditRaised) => a_pc = Stopped("done")

C13_Witness ==
  /\ a_script = "export_quarterly_evidence"
  /\ a_pc = Stopped("done")
  /\ a_exit = 0
  /\ \A t \in {ER, PL} : a_env.records[t] = {}
  /\ \A i \in 1..Len(a_acc.manifest) : a_acc.manifest[i].isEmpty


\* C12: a second export run that receives the same record set as the first,
\* in whatever order of the records and of the fields of a record, records
\* the same sha256 as the first for each exported table file.
C12_SameRecordsSameHash ==
  (a_script = "export_quarterly_evidence" /\ a_acc.prev # <<>>) =>
    \A i \in 1..Len(a_acc.manifest) :
      (i <= Len(a_acc.prev[1].manifest)
         /\ a_acc.manifest[i].recordCount = a_acc.prev[1].manifest[i].recordCount)
        => a_acc.manifest[i].sha256 = a_acc.prev[1].manifest[i].sha256


(***************************************************************************)
(* Properties of ELMClient and of the exit codes                           *)
(***************************************************************************)
\* C18: a method of ELMClient that is answered with 429 issues its request
\* again (after a wait) before it raises: a call that raised on a 429 has
\* issued more than one request.
C18_RetriesOn429 ==
  (c_pc = "raised" /\ c_responses # <<>> /\ c_responses[Len(c_responses)] = 429)
    => Len(c_responses) > 1

\* deploy_mcg.py main(): 1 from the except clause, 0 at the end
McgExitCode ==
  IF m_pc = Stopped("done") THEN 0 ELSE IF m_pc = Stopped("aborted") THEN 1 ELSE -1

C21_ParsedAsNamed ==
  a_script = "verify_role_privileges" =>
    /\ \A r \in DOMAIN a_env.roles : \A row \in a_env.roles[r].rows :
         ParsedPrivilege(row) = <<row.entity, row.action, DEPTH_MAP(row.depth)>>
    /\ \A i \in 1..Len(a_acc.roles) :
         LET role == a_acc.roles[i].name
             held == {<<row.entity, row.action, DEPTH_MAP(row.depth)>> :
                        row \in a_env.roles[role].rows}
         IN (a_env.roles[role].exists
               /\ held = {x \in EXPECTED_ROLES(role) : x[3] # "None"})
              => a_acc.roles[i].passed


(***************************************************************************)
(* Properties of the roles the deployments build                           *)
(***************************************************************************)
\* the privileges that would let a role change or remove an audit record
BreaksImmutability(role, priv) ==
  \/ priv \in {<<"Write", PL>>, <<"Delete", PL>>}
  \/ priv = <<"Delete", "mcg_decisionlog">>
  \/ role = "MC Compliance Reviewer" /\ priv = <<"Write", "mcg_decisionlog">>

\* C22: no definition of a role of either deployment holds Write or Delete on
\* fsi_provisioninglog, Delete on mcg_decisionlog or, for MC Compliance
\* Reviewer, Write on mcg_decisionlog; the deployments assign privileges of
\* these definitions only, so no step of a run grants such a privilege.
C22_NoImmutabilityBreach ==
  [][ /\ \A role \in ELM_ROLE_NAMES : \A priv \in ELM_ROLE_PRIVILEGES(role) :
           ~BreaksImmutability(role, priv)
      /\ \A role \in MCG_ROLE_NAMES : \A priv \in MCG_ROLE_PRIVILEGES(role) :
           ~BreaksImmutability(role, priv)
      /\ m_pc.i # 0 => \A x \in m_remote'.rolePrivs \ m_remote.rolePrivs :
           /\ x[2] \in MCG_ROLE_PRIVILEGES(x[1])
           /\ ~BreaksImmutability(x[1], x[2])
      /\ e_pc.i # 0 => \A x \in e_remote'.rolePrivs \ e_remote.rolePrivs :
           /\ x[2] \in ELM_ROLE_PRIVILEGES(x[1])
           /\ ~BreaksImmutability(x[1], x[2]) ]_vars

\* a deployment has assigned privileges on its audit table
C22_Witness ==
  \/ /\ m_run >= 1
     /\ <<"MC Admin", <<"Read", "mcg_decisionlog">>>> \in m_remote.rolePrivs
  \/ /\ e_run >= 1
     /\ <<"ELM Admin", <<"Create", PL>>>> \in e_remote.rolePrivs
     /\ <<"ELM Approver", <<"Read", PL>>>> \in e_remote.rolePrivs


(***************************************************************************)
(* Properties of the wait for the alternate key                            *)
(***************************************************************************)
WaitIndex == IndexOf("wait_for_alternate_key", AlternateKey)

\* the calls of step 9 and later
LaterMethods == {Program[i].m : i \in (WaitIndex + 1)..Len(Program)}

WaitLogged(event) == <<event, "wait_for_alternate_key", "start", AlternateKey>> \in m_log.issued

\* a request of step 9 or later is issued only in a run whose wait saw Active
C23_LaterOnlyAfterActive ==
  \A e \in m_log.issued :
    (e[1] = "req" /\ e[2] \in LaterMethods) =>
      /\ WaitLogged("active")
      /\ m_remote.keyStatus = "Active"

\* C23 as claimed: the wait ends by the status Active, by the status Failed
\* or by the expiry of the timeout, and by nothing else.
C23_ThreeOutcomes ==
  /\ [] C23_LaterOnlyAfterActive
  /\ [][ (Running("wait_for_alternate_key") /\ m_pc'.i # m_pc.i) =>
           \/ m_pc'.i = WaitIndex + 1 /\ WaitLogged("active")'
           \/ m_pc' = Stopped("aborted") /\ (WaitLogged("failed")' \/ WaitLogged("expired")') ]_vars
  /\ Running("wait_for_alternate_key") ~> ~Running("wait_for_alternate_key")

\* C23: deploy() issues the requests of step 9 and later only after
\* wait_for_alternate_key saw the status Active; the status Failed, the expiry
\* of the timeout and the failure of a poll raise and abort the run; and the
\* wait always ends, in one of these four ways.
C23_WaitEnds ==
  /\ [] C23_LaterOnlyAfterActive
  /\ [][ (Running("wait_for_alternate_key") /\ m_pc'.i # m_pc.i) =>
           \/ m_pc'.i = WaitIndex + 1 /\ WaitLogged("active")'
           \/ /\ m_pc' = Stopped("aborted")
              /\ \/ WaitLogged("failed")'
                 \/ WaitLogged("expired")'
                 \/ /\ m_log'.lastFail # <<>>
                    /\ m_log'.lastFail[1] = "wait_for_alternate_key" ]_vars
  /\ Running("wait_for_alternate_key") ~> ~Running("wait_for_alternate_key")

\* the timeout ran out on a key that was still being built
C23_Witness ==
  /\ m_pc = Stopped("aborted")
  /\ WaitLogged("expired")
  /\ m_remote.keyStatus = "Pending"


\* create_security_role returned for the role in this run, and what it returned
RoleReturned(role) == <<"returned", "create_security_role", "", RoleKey(role)>> \in m_log.issued

ReturnedFailures(role) ==
  {priv \in {RolePrivileges(role)[j] : j \in 1..Len(RolePrivileges(role))} :
     Failure(role, priv) \in m_log.issued}

\* C24: when create_security_role has returned an empty list for a role, the
\* role holds every privilege of its definition; a privilege of the definition
\* that the role does not hold is in the list returned.
C24_EmptyListMeansComplete ==
  \A i \in 1..Len(ROLE_DEFINITIONS) :
    LET role == ROLE_DEFINITIONS[i]
    IN RoleReturned(role) =>
         \A j \in 1..Len(RolePrivileges(role)) :
           \/ <<role, RolePrivileges(role)[j]>> \in m_remote.rolePrivs
           \/ RolePrivileges(role)[j] \in ReturnedFailures(role)


(***************************************************************************)
(* Properties of two runs at the same time                                 *)
(***************************************************************************)
\* C25 as claimed: of two runs of the deployment that go on at the same time,
\* at most one issues the create request for a natural key, and the
\* environment never holds two resources with one key.
C25_OneCreatePerKey ==
  \A k \in DOMAIN p_remote :
    /\ Cardinality({p \in RACE_RUNS : <<"req", p, "create", k>> \in p_issued}) <= 1
    /\ p_remote[k] <= 1


\* C25: each of two runs that go on at the same time issues the create
\* request for a natural key only after its own lookup of the key found
\* nothing; the environment holds two resources with one key only when both
\* runs issued the create request and the platform took both, and never more
\* than two.
C25_CreateAfterOwnMiss ==
  \A k \in DOMAIN p_remote :
    /\ \A p \in RACE_RUNS :
         <<"req", p, "create", k>> \in p_issued => <<"miss", p, "start", k>> \in p_issued
    /\ p_remote[k] <= 2
    /\ p_remote[k] = 2 => \A p \in RACE_RUNS : <<"req", p, "create", k>> \in p_issued

\* both runs have returned, and the environment holds the role twice
C25_Witness ==
  /\ \A p \in RACE_RUNS : p_pc[p] = Stopped("done")
  /\ p_remote[RoleKey("MC Admin")] = 2


(***************************************************************************)
(* C26: field security is created only on a validated schema               *)
(***************************************************************************)

\* C26: create_field_security goes past its validation, to the profile and
\* the field permissions, only when the fsi_environmentrequest table and
\* every field of APPROVER_FIELD_PERMISSIONS were found; when the table or a
\* field is missing it returns False and the run holds no create request of
\* create_field_security
C26_NoCreateOnMissingField ==
  /\ (ElmRunning("create_field_security") /\ ElmCur.k # Setup("fields")) => ApproverFieldsPresent
  /\ FieldSecurityCreates # {} => ApproverFieldsPresent
  /\ FieldValidationFailed => FieldSecurityCreates = {}
  /\ (e_pc.i # 0 /\ FieldValidationFailed) => ElmCur.m # "create_field_security"

\* a real run found a field missing, returned False and created nothing
C26_Witness ==
  /\ ~e_dry
  /\ ElmExists(TableKey(ER))
  /\ ~ApproverFieldsPresent
  /\ <<"error", "create_field_security", "validate", Setup("fields")>> \in e_log.issued
  /\ e_log.lastFail = <<>>
  /\ FieldSecurityCreates = {}


(***************************************************************************)
(* C27: the hashes of the export manifest                                  *)
(***************************************************************************)

\* what was written to the file of that name
Written(name) == (CHOOSE f \in a_acc.files : f[1] = name)[2]

C28_FailsOpen ==
  /\ decision = "pending" => printed = <<>>
  /\ decision # "pending" =>
       /\ Len(printed) = 1
       /\ printed[1].decision = decision
       /\ decision \in {"allow", "block"}
       /\ decision = "block" <=>
            /\ hook = "framework"
            /\ stdin = "command"
            /\ ~check_command(command, is_windows).allow

\* an input whose command is no string made check_command raise and was
\* answered with "allow" and a message
C28_Witness ==
  /\ hook = "framework"
  /\ stdin = "command_not_string"
  /\ printed = <<[decision |-> "allow", with |-> "message"]>>


(***************************************************************************)
(* C29: re-running the registration                                        *)
(***************************************************************************)

\* C29 as claimed: a run of register_service_principal.py without
\* --rotate-secret that finds the application creates no application and no
\* client secret and stores nothing in the vault
C29_RerunCreatesNoSecret ==
  (e_mode = "register" /\ e_run > 0 /\ e_log.snap.res[AppRegistrationKey] > 0) =>
    /\ e_remote.res[AppRegistrationKey] = e_log.snap.res[AppRegistrationKey]
    /\ e_remote.secrets = e_log.snap.secrets
    /\ e_remote.vault = e_log.snap.vault


(***************************************************************************)
(* C30: nothing but throttling is retried                                  *)
(***************************************************************************)

\* C30: _request sends again only after a 429: a response with any other
\* status is the last of its call, is returned, and cost one attempt; no
\* step of deploy() issues a request again that has failed in the same run
\* (a failure ends the run or, where it is tolerated, the run goes on with
\* the next request)
C30_RetriesOnlyThrottling ==
  /\ Len(rq_responses) = rq_attempts
  /\ \A i \in 1..Len(rq_responses) :
       rq_responses[i].status # 429 => (i = Len(rq_responses) /\ rq_pc = "returned")
  /\ (Len(rq_responses) >= 1 /\ rq_responses[1].status # 429) => rq_attempts = 1
  /\ ~m_log.reissued
  /\ (m_log.failed # {} /\ m_pc.i # 0) => RequestId(m_pc.ph) \notin m_log.failed

\* a server error was returned after one attempt
C30_Witness ==
  /\ rq_pc = "returned"
  /\ rq_attempts = 1
  /\ rq_responses[1].status = 500

====
